---- MODULE Spec2Model ----
(***************************************************************************)
(* Conversions between the `time` crate's value types and the host         *)
(* runtime's datetime objects (src/src/conversions/time.rs).               *)
(*                                                                         *)
(* The module is a set of pure conversion functions.  Each is an operator  *)
(* here, translated from its code; the state machine is the boundary       *)
(* between the two sides: a host object currently held, the native value   *)
(* it was exported from (if any), and the record of the last conversion.   *)
(*                                                                         *)
(* 64-bit quantities (Duration's seconds, whole_days) do not fit the       *)
(* 32-bit integers of TLC; they are held as sign and magnitude, magnitude  *)
(* a little-endian sequence of limbs, and the arithmetic the code performs *)
(* on them (/, *, +, -, comparisons, try_into) is carried out limb by limb.*)
(***************************************************************************)
EXTENDS Integers, Sequences, FiniteSets, TLC

VARIABLES limited, host, src, last, TYPES, API, hostmod, memo, pc, mine

vars == <<limited, host, src, last, TYPES, API, hostmod, memo, pc, mine>>

(***************************************************************************)
(* Program constants.                                                      *)
(***************************************************************************)
SecondsPerDay == 86400
MicrosPerSecond == 1000000
NanosPerMicro == 1000
NanosPerSecond == 1000000000
MaxDeltaDays == 999999999
I32Max == 2147483647
I32Min == (-I32Max) - 1
MinYear == 1
MaxYear == 9999

(***************************************************************************)
(* Bounds of the model: how far around each boundary value the inputs are  *)
(* spread.                                                                 *)
(***************************************************************************)
DaySpread == 1
SecSpread == 1
SubSpread == 1
YearSpread == 1
OffsetSpread == 1
NumThreads == 3

\* calls counted after a remembered one
MaxLater == 2

(***************************************************************************)
(* Wide integers.                                                          *)
(***************************************************************************)
Base == 100 * 100

Max2(a, b) == IF a >= b THEN a ELSE b

RECURSIVE MagFromNat(_)
MagFromNat(n) ==
  IF n = 0 THEN <<>> ELSE <<n % Base>> \o MagFromNat(n \div Base)

RECURSIVE MagToNat(_)
MagToNat(m) ==
  IF m = <<>> THEN 0 ELSE m[1] + Base * MagToNat(Tail(m))

RECURSIVE MagStrip(_)
MagStrip(m) ==
  IF m = <<>> THEN m
  ELSE IF m[Len(m)] = 0 THEN MagStrip(SubSeq(m, 1, Len(m) - 1))
  ELSE m

Limb(m, i) == IF i <= Len(m) THEN m[i] ELSE 0

RECURSIVE MagCmpAt(_, _, _)
MagCmpAt(a, b, i) ==
  IF i = 0 THEN 0
  ELSE IF a[i] < b[i] THEN -1
  ELSE IF a[i] > b[i] THEN 1
  ELSE MagCmpAt(a, b, i - 1)

MagCmp(a, b) ==
  IF Len(a) < Len(b) THEN -1
  ELSE IF Len(a) > Len(b) THEN 1
  ELSE MagCmpAt(a, b, Len(a))

RECURSIVE MagAddAt(_, _, _, _)
MagAddAt(a, b, i, carry) ==
  IF i > Max2(Len(a), Len(b))
  THEN (IF carry = 0 THEN <<>> ELSE <<carry>>)
  ELSE LET s == Limb(a, i) + Limb(b, i) + carry
       IN  <<s % Base>> \o MagAddAt(a, b, i + 1, s \div Base)

MagAdd(a, b) == MagAddAt(a, b, 1, 0)

RECURSIVE MagSubAt(_, _, _, _)
MagSubAt(a, b, i, borrow) ==
  IF i > Len(a) THEN <<>>
  ELSE LET s == a[i] - Limb(b, i) - borrow
       IN  IF s < 0 THEN <<s + Base>> \o MagSubAt(a, b, i + 1, 1)
           ELSE <<s>> \o MagSubAt(a, b, i + 1, 0)

\* a - b for a >= b
MagSub(a, b) == MagStrip(MagSubAt(a, b, 1, 0))

RECURSIVE MagMulAt(_, _, _, _)
MagMulAt(a, k, i, carry) ==
  IF i > Len(a) THEN MagFromNat(carry)
  ELSE LET p == a[i] * k + carry
       IN  <<p % Base>> \o MagMulAt(a, k, i + 1, p \div Base)

\* a * k for 0 <= k < 200000
MagMulSmall(a, k) == MagStrip(MagMulAt(a, k, 1, 0))

RECURSIVE MagDivAt(_, _, _, _)
MagDivAt(a, k, i, rem) ==
  IF i = 0 THEN [q |-> <<>>, r |-> rem]
  ELSE LET cur == rem * Base + a[i]
           rest == MagDivAt(a, k, i - 1, cur % k)
       IN  [q |-> rest.q \o <<cur \div k>>, r |-> rest.r]

\* quotient and remainder of a by k, for 0 < k < 200000
MagDivSmall(a, k) ==
  LET d == MagDivAt(a, k, Len(a), 0) IN [q |-> MagStrip(d.q), r |-> d.r]

W(neg, mag) == [neg |-> neg /\ mag # <<>>, mag |-> mag]

WZero == W(FALSE, <<>>)

WFromInt(n) ==
  IF n >= 0 THEN W(FALSE, MagFromNat(n))
  ELSE IF n = I32Min THEN W(TRUE, MagAdd(MagFromNat(I32Max), <<1>>))
  ELSE W(TRUE, MagFromNat(-n))

WNeg(a) == W(~a.neg, a.mag)

WIsNeg(a) == a.neg

WIsPos(a) == ~a.neg /\ a.mag # <<>>

\* -1, 0 or 1 as a < b, a = b, a > b
WCmp(a, b) ==
  IF a.neg /\ ~b.neg THEN -1
  ELSE IF ~a.neg /\ b.neg THEN 1
  ELSE IF a.neg THEN MagCmp(b.mag, a.mag)
  ELSE MagCmp(a.mag, b.mag)

WAdd(a, b) ==
  IF a.neg = b.neg THEN W(a.neg, MagAdd(a.mag, b.mag))
  ELSE IF MagCmp(a.mag, b.mag) >= 0 THEN W(a.neg, MagSub(a.mag, b.mag))
  ELSE W(b.neg, MagSub(b.mag, a.mag))

WSub(a, b) == WAdd(a, WNeg(b))

\* a * k for 0 <= k < 200000
WMulSmall(a, k) == W(a.neg, MagMulSmall(a.mag, k))

\* Rust's a / k and a % k on integers: the quotient is truncated toward
\* zero and the remainder has the sign of a.
WDivTrunc(a, k) == W(a.neg, MagDivSmall(a.mag, k).q)

WRemTrunc(a, k) ==
  LET r == MagDivSmall(a.mag, k).r IN IF a.neg THEN -r ELSE r

I64MaxW == WSub(WMulSmall(WMulSmall(WMulSmall(WFromInt(32768), 65536), 65536), 65536), WFromInt(1))

I64MinW == WSub(WNeg(I64MaxW), WFromInt(1))

WFitsI64(a) == WCmp(a, I64MinW) >= 0 /\ WCmp(a, I64MaxW) <= 0

WFitsI32(a) == WCmp(a, WFromInt(I32Min)) >= 0 /\ WCmp(a, WFromInt(I32Max)) <= 0

\* the value of a that fits i32, as a plain integer
WToInt(a) ==
  IF a = WFromInt(I32Min) THEN I32Min
  ELSE IF a.neg THEN -MagToNat(a.mag)
  ELSE MagToNat(a.mag)

\* Rust's a / b and a % b on plain integers, for b > 0
TruncDiv(a, b) == IF a >= 0 THEN a \div b ELSE -((-a) \div b)

TruncRem(a, b) == IF a >= 0 THEN a % b ELSE -((-a) % b)

\* a + b in a C int, wrapping on overflow, for a small b
WrapAddI32(a, b) ==
  IF b >= 0
  THEN (IF a > I32Max - b THEN I32Min + (b - (I32Max - a) - 1) ELSE a + b)
  ELSE (IF a < I32Min - b THEN I32Max - ((I32Min - b) - a - 1) ELSE a + b)

(***************************************************************************)
(* Results of a conversion: Ok(value), Err(a host exception), or a panic.  *)
(***************************************************************************)
Ok(v) == [tag |-> "Ok", val |-> v]

Err(type, msg) == [tag |-> "Err", type |-> type, msg |-> msg]

Panic(msg) == [tag |-> "Panic", msg |-> msg]

\* let value = ...; body: a value computed once and then used by name
Bind(value, body(_)) == CHOOSE r \in {body(v) : v \in {value}} : TRUE

IsOk(r) == r.tag = "Ok"

IsErr(r) == r.tag = "Err"

(***************************************************************************)
(* Host objects.                                                           *)
(***************************************************************************)
PyNone == [kind |-> "NoneType"]

PyDelta(days, seconds, microseconds) ==
  [kind |-> "timedelta", days |-> days, seconds |-> seconds,
   microseconds |-> microseconds]

\* The host's timedelta constructor on C ints with normalization: carries
\* microseconds into seconds and seconds into days so that
\* 0 <= microseconds < 1000000 and 0 <= seconds < 86400, then refuses a day
\* count of magnitude above 999999999.
new_delta_ex(days, seconds, us) ==
  LET s1 == seconds + (us \div MicrosPerSecond)
      us1 == us % MicrosPerSecond
      d1 == WrapAddI32(days, s1 \div SecondsPerDay)
      s2 == s1 % SecondsPerDay
  IN  IF d1 < -MaxDeltaDays \/ d1 > MaxDeltaDays
      THEN Err("OverflowError", "days out of range")
      ELSE Ok(PyDelta(d1, s2, us1))

\* datetime.timedelta(days, seconds, microseconds) called with host integers
\* of any size.
timedelta_call(days, seconds, us) ==
  IF ~WFitsI32(days) \/ ~WFitsI32(seconds) \/ ~WFitsI32(us)
  THEN Err("OverflowError", "days out of range")
  ELSE new_delta_ex(WToInt(days), WToInt(seconds), WToInt(us))

\* The name of a host object's type, as the downcast error prints it: the
\* class of a zoneinfo zone is ZoneInfo.
TypeName(ob) == IF ob.kind = "zoneinfo" THEN "ZoneInfo" ELSE ob.kind

DowncastError(ob, type_name) ==
  Err("TypeError",
      <<"'", TypeName(ob), "' object cannot be converted to '", type_name, "'">>)

\* The host classes an object is an instance of: a datetime is a date.
IsInstance(ob, kind) ==
  \/ ob.kind = kind
  \/ (ob.kind = "datetime" /\ kind = "date")
  \/ (ob.kind \in {"timezone", "zoneinfo", "usertz"} /\ kind = "tzinfo")

\* downcast::<T>() and, in the limited build, check_type(value, t, type_name)
downcast(ob, kind, type_name) ==
  IF IsInstance(ob, kind) THEN Ok(TRUE) ELSE DowncastError(ob, type_name)

(***************************************************************************)
(* time::Duration: seconds (i64) and nanoseconds (i32) of the same sign.   *)
(***************************************************************************)
Duration(seconds, nanoseconds) ==
  [kind |-> "Duration", seconds |-> seconds, nanoseconds |-> nanoseconds]

Duration_days(days) == Duration(WMulSmall(days, SecondsPerDay), 0)

Duration_seconds(seconds) == Duration(seconds, 0)

Duration_microseconds(us) ==
  Duration(WFromInt(TruncDiv(us, MicrosPerSecond)),
           TruncRem(us, MicrosPerSecond) * NanosPerMicro)

\* the carry of nanoseconds into seconds that checked_add and checked_sub share
Duration_carry(seconds, nanoseconds) ==
  IF nanoseconds >= NanosPerSecond \/ (WIsNeg(seconds) /\ nanoseconds > 0)
  THEN Duration(WAdd(seconds, WFromInt(1)), nanoseconds - NanosPerSecond)
  ELSE IF nanoseconds <= -NanosPerSecond \/ (WIsPos(seconds) /\ nanoseconds < 0)
  THEN Duration(WSub(seconds, WFromInt(1)), nanoseconds + NanosPerSecond)
  ELSE Duration(seconds, nanoseconds)

Duration_add(a, b) ==
  Duration_carry(WAdd(a.seconds, b.seconds), a.nanoseconds + b.nanoseconds)

Duration_sub(a, b) ==
  Duration_carry(WSub(a.seconds, b.seconds), a.nanoseconds - b.nanoseconds)

whole_days(d) == WDivTrunc(d.seconds, SecondsPerDay)

whole_seconds(d) == d.seconds

whole_microseconds(d) ==
  WAdd(WMulSmall(WMulSmall(d.seconds, 1000), 1000),
       WFromInt(TruncDiv(d.nanoseconds, NanosPerMicro)))

\* i64 or i128 to i32: the value, or the ValueError a TryFromIntError becomes
try_into_i32(w) ==
  IF WFitsI32(w) THEN Ok(WToInt(w))
  ELSE Err("ValueError", "out of range integral type conversion attempted")

\* Variant: a day count that does not fit 32 bits is clamped to the host's
\* greatest day count instead of i32::MAX, in both builds.
Duration_into_pyobject_clamp_to_host(self, lim) ==
  LET days == whole_days(self)
      secs_dur == Duration_sub(self, Duration_days(days))
      secs == whole_seconds(secs_dur)
      micros == whole_microseconds(
                  Duration_sub(secs_dur, Duration_seconds(whole_seconds(secs_dur))))
      days32 == IF WFitsI32(days) THEN WToInt(days)
                ELSE IF WIsNeg(days) THEN -MaxDeltaDays ELSE MaxDeltaDays
  IN  new_delta_ex(days32, WToInt(secs), WToInt(micros))

\* Variant: the microseconds are rounded to the nearest instead of cut off.
Duration_into_pyobject_rounding(self, lim) ==
  LET days == whole_days(self)
      secs_dur == Duration_sub(self, Duration_days(days))
      secs == whole_seconds(secs_dur)
      rest == Duration_sub(secs_dur, Duration_seconds(whole_seconds(secs_dur)))
      micros == IF rest.nanoseconds >= 0
                THEN (rest.nanoseconds + 500) \div NanosPerMicro
                ELSE -((500 - rest.nanoseconds) \div NanosPerMicro)
      days32 == IF WFitsI32(days) THEN WToInt(days) ELSE I32Max
  IN  new_delta_ex(days32, WToInt(secs), micros)

\* Variant: the microseconds are rounded down instead of cut off toward zero.
Duration_into_pyobject_floor(self, lim) ==
  LET days == whole_days(self)
      secs_dur == Duration_sub(self, Duration_days(days))
      secs == whole_seconds(secs_dur)
      rest == Duration_sub(secs_dur, Duration_seconds(whole_seconds(secs_dur)))
      micros == IF rest.nanoseconds >= 0
                THEN rest.nanoseconds \div NanosPerMicro
                ELSE -((NanosPerMicro - 1 - rest.nanoseconds) \div NanosPerMicro)
      days32 == IF WFitsI32(days) THEN WToInt(days) ELSE I32Max
  IN  new_delta_ex(days32, WToInt(secs), micros)

\* Variant: the seconds within the day lose their sign.
Duration_into_pyobject_unsigned_seconds(self, lim) ==
  LET days == whole_days(self)
      secs_dur == Duration_sub(self, Duration_days(days))
      secs == WToInt(whole_seconds(secs_dur))
      micros == whole_microseconds(
                  Duration_sub(secs_dur, Duration_seconds(whole_seconds(secs_dur))))
      days32 == IF WFitsI32(days) THEN WToInt(days) ELSE I32Max
  IN  new_delta_ex(days32, IF secs < 0 THEN -secs ELSE secs, WToInt(micros))

\* impl IntoPyObject for Duration
Duration_into_pyobject(self, lim) ==
  LET days == whole_days(self)
      secs_dur == Duration_sub(self, Duration_days(days))
      secs == whole_seconds(secs_dur)
      micros == whole_microseconds(
                  Duration_sub(secs_dur, Duration_seconds(whole_seconds(secs_dur))))
      days32 == IF WFitsI32(days) THEN WToInt(days) ELSE I32Max
      secs32 == try_into_i32(secs)
      micros32 == try_into_i32(micros)
  IN  IF lim
      THEN timedelta_call(days, secs, micros)
      ELSE IF ~IsOk(secs32) THEN secs32
      ELSE IF ~IsOk(micros32) THEN micros32
      ELSE new_delta_ex(days32, secs32.val, micros32.val)

\* Variant: the microseconds of the delta are left out.
Duration_extract_bound_no_micros(ob, lim) ==
  LET type_check == downcast(ob, "timedelta", "PyDelta")
  IN  IF ~IsOk(type_check) THEN type_check
      ELSE Ok(Duration_add(Duration_days(WFromInt(ob.days)),
                           Duration_seconds(WFromInt(ob.seconds))))

\* Variant: the days are counted as spans of 86399 seconds.
Duration_extract_bound_short_days(ob, lim) ==
  LET type_check == downcast(ob, "timedelta", "PyDelta")
  IN  IF ~IsOk(type_check) THEN type_check
      ELSE Ok(Duration_add(
                Duration_add(
                  Duration(WMulSmall(WFromInt(ob.days), SecondsPerDay - 1), 0),
                  Duration_seconds(WFromInt(ob.seconds))),
                Duration_microseconds(ob.microseconds)))

\* impl FromPyObject for Duration
Duration_extract_bound(ob, lim) ==
  LET type_check == downcast(ob, "timedelta", "PyDelta")
      sum == Duration_add(
               Duration_add(Duration_days(WFromInt(ob.days)),
                            Duration_seconds(WFromInt(ob.seconds))),
               Duration_microseconds(ob.microseconds))
  IN  IF ~IsOk(type_check) THEN type_check
      ELSE IF ~WFitsI64(WMulSmall(WFromInt(ob.days), SecondsPerDay))
              \/ ~WFitsI64(sum.seconds)
      THEN Panic("overflow constructing time::Duration")
      ELSE Ok(sum)

(***************************************************************************)
(* Calendar dates.  A Month is held as its discriminant, January = 1.      *)
(***************************************************************************)
\* time::Date holds the years -9999..=9999 (the crate's large-dates feature,
\* which widens the range, is not enabled)
NativeMaxYear == 9999

is_leap_year(year) == year % 4 = 0 /\ (year % 25 # 0 \/ year % 16 = 0)

days_in_month(year, month) ==
  IF month \in {1, 3, 5, 7, 8, 10, 12} THEN 31
  ELSE IF month \in {4, 6, 9, 11} THEN 30
  ELSE IF is_leap_year(year) THEN 29
  ELSE 28

Date(year, month, day) ==
  [kind |-> "Date", year |-> year, month |-> month, day |-> day]

\* time::Date::from_calendar_date: the date, or a ComponentRange error
Date_from_calendar_date(year, month, day) ==
  IF year < -NativeMaxYear \/ year > NativeMaxYear
     \/ day < 1 \/ day > days_in_month(year, month)
  THEN Err("ComponentRange", "date")
  ELSE Ok(Date(year, month, day))

\* impl TryFrom<u8> for time::Month
Month_try_from(n) ==
  IF n \in 1..12 THEN Ok(n) ELSE Err("ComponentRange", "month")

PyDate(year, month, day) ==
  [kind |-> "date", year |-> year, month |-> month, day |-> day]

\* the host's date constructor
PyDate_new(year, month, day) ==
  IF year < MinYear \/ year > MaxYear
  THEN Err("ValueError", "year is out of range")
  ELSE IF month < 1 \/ month > 12
  THEN Err("ValueError", "month must be in 1..12")
  ELSE IF day < 1 \/ day > days_in_month(year, month)
  THEN Err("ValueError", "day is out of range for month")
  ELSE Ok(PyDate(year, month, day))

\* impl FromPyObject for Month
Month_extract_bound(n) ==
  IF n < 0 \/ n > 255
  THEN Err("OverflowError", "out of range integral type conversion attempted")
  ELSE LET m == Month_try_from(IF n = 0 THEN 0 ELSE n - 1)
       IN  IF IsOk(m) THEN m ELSE Err("ValueError", "invalid month")

\* impl IntoPyObject for Month
Month_into_pyobject(self) == Ok(self)

\* time::Month, by its number: January is 1
Month(number) == [kind |-> "Month", number |-> number]

\* a host integer
PyInt(value) == [kind |-> "int", value |-> value]

\* Month::into_pyobject with its argument and result as objects
Month_export(self) ==
  LET n == Month_into_pyobject(self.number)
  IN  IF IsOk(n) THEN Ok(PyInt(n.val)) ELSE n

\* Month::extract_bound on any host object: ob.extract::<u8>() first
Month_import(ob) ==
  IF ob.kind # "int"
  THEN Err("TypeError",
           <<"'", TypeName(ob), "' object cannot be interpreted as an integer">>)
  ELSE LET m == Month_extract_bound(ob.value)
       IN  IF IsOk(m) THEN Ok(Month(m.val)) ELSE m

\* Variant: the year is clamped into the host's range of years.
DateArgs_from_clamped(value) ==
  [year |-> IF value.year < MinYear THEN MinYear
            ELSE IF value.year > MaxYear THEN MaxYear ELSE value.year,
   month |-> value.month, day |-> value.day]

\* impl From<&Date> for DateArgs
DateArgs_from(value) ==
  [year |-> value.year, month |-> value.month, day |-> value.day]

\* impl IntoPyObject for Date
Date_into_pyobject(self, lim) ==
  LET args == DateArgs_from(self)
  IN  PyDate_new(args.year, args.month, args.day)

\* py_date_to_naive_date, in each build
py_date_to_naive_date(py_date, lim) ==
  LET month == IF lim THEN Month_extract_bound(py_date.month)
               ELSE LET m == Month_try_from(py_date.month)
                    IN  IF IsOk(m) THEN m ELSE Err("ValueError", "invalid month")
  IN  IF ~IsOk(month) THEN month
      ELSE LET date == Date_from_calendar_date(py_date.year, month.val, py_date.day)
           IN  IF IsOk(date) THEN date
               ELSE Err("ValueError", "invalid or out-of-range date")

\* impl FromPyObject for Date
Date_extract_bound(ob, lim) ==
  LET type_check == downcast(ob, "date", "PyDate")
  IN  IF ~IsOk(type_check) THEN type_check
      ELSE py_date_to_naive_date(ob, lim)

(***************************************************************************)
(* Times of day.                                                           *)
(***************************************************************************)
Time(hour, minute, second, nanosecond) ==
  [kind |-> "Time", hour |-> hour, minute |-> minute, second |-> second,
   nanosecond |-> nanosecond]

\* time::Time::from_hms_micro
Time_from_hms_micro(hour, minute, second, microsecond) ==
  IF hour > 23 \/ minute > 59 \/ second > 59 \/ microsecond >= MicrosPerSecond
  THEN Err("ComponentRange", "time")
  ELSE Ok(Time(hour, minute, second, microsecond * NanosPerMicro))

PyTime(hour, minute, second, microsecond, tzinfo) ==
  [kind |-> "time", hour |-> hour, minute |-> minute, second |-> second,
   microsecond |-> microsecond, tzinfo |-> tzinfo]

\* the host's time constructor
PyTime_new(hour, minute, second, microsecond, tzinfo) ==
  IF hour > 23 THEN Err("ValueError", "hour must be in 0..23")
  ELSE IF minute > 59 THEN Err("ValueError", "minute must be in 0..59")
  ELSE IF second > 59 THEN Err("ValueError", "second must be in 0..59")
  ELSE IF microsecond >= MicrosPerSecond
  THEN Err("ValueError", "microsecond must be in 0..999999")
  ELSE Ok(PyTime(hour, minute, second, microsecond, tzinfo))

\* Variant: the nanoseconds are divided down to milliseconds.
TimeArgs_from_millis(value) ==
  [hour |-> value.hour, min |-> value.minute, sec |-> value.second,
   micro |-> value.nanosecond \div (NanosPerMicro * 1000),
   truncated_leap_second |-> FALSE]

\* Variant: the last nanosecond of a second is taken for a leap second.
TimeArgs_from_last_nano(value) ==
  LET ns == value.nanosecond
      truncated_leap_second == ns >= NanosPerSecond - 1
      micro == ns \div NanosPerMicro
  IN  [hour |-> value.hour, min |-> value.minute, sec |-> value.second,
       micro |-> micro, truncated_leap_second |-> truncated_leap_second]

\* impl From<&Time> for TimeArgs
TimeArgs_from(value) ==
  LET ns == value.nanosecond
      truncated_leap_second == ns >= NanosPerSecond
      micro == (IF truncated_leap_second THEN ns - NanosPerSecond ELSE ns)
                 \div NanosPerMicro
  IN  [hour |-> value.hour, min |-> value.minute, sec |-> value.second,
       micro |-> micro, truncated_leap_second |-> truncated_leap_second]

\* The outcome of an export that may warn: its result and the number of
\* leap-second warnings it emitted.
Outcome(res, warnings) == [res |-> res, warnings |-> warnings]

\* impl IntoPyObject for Time
Time_into_pyobject(self, lim) ==
  LET args == TimeArgs_from(self)
      time == PyTime_new(args.hour, args.min, args.sec, args.micro, PyNone)
  IN  IF ~IsOk(time) THEN Outcome(time, 0)
      ELSE Outcome(time, IF args.truncated_leap_second THEN 1 ELSE 0)

\* py_time_to_naive_time, in each build
py_time_to_naive_time(py_time, lim) ==
  LET time == Time_from_hms_micro(py_time.hour, py_time.minute, py_time.second,
                                  py_time.microsecond)
  IN  IF IsOk(time) THEN time
      ELSE Err("ValueError", "invalid or out-of-range time")

\* Variant: whatever has the attributes of a time of day is read as one.
Time_extract_bound_by_attributes(ob, lim) ==
  LET type_check == downcast(ob, "time", "PyTime")
  IN  IF {"hour", "minute", "second", "microsecond"} \subseteq DOMAIN ob
      THEN py_time_to_naive_time(ob, lim)
      ELSE type_check

\* Variant: a time of day that carries a tzinfo is refused, as a date-time is.
Time_extract_bound_naive_only(ob, lim) ==
  LET type_check == downcast(ob, "time", "PyTime")
  IN  IF ~IsOk(type_check) THEN type_check
      ELSE IF ob.tzinfo # PyNone
      THEN Err("TypeError", "expected a time without tzinfo")
      ELSE py_time_to_naive_time(ob, lim)

\* impl FromPyObject for Time
Time_extract_bound(ob, lim) ==
  LET type_check == downcast(ob, "time", "PyTime")
  IN  IF ~IsOk(type_check) THEN type_check
      ELSE py_time_to_naive_time(ob, lim)

(***************************************************************************)
(* Date-times without an offset.                                           *)
(***************************************************************************)
PrimitiveDateTime(date, time) ==
  [kind |-> "PrimitiveDateTime", date |-> date, time |-> time]

PyDateTime(year, month, day, hour, minute, second, microsecond, tzinfo) ==
  [kind |-> "datetime", year |-> year, month |-> month, day |-> day,
   hour |-> hour, minute |-> minute, second |-> second,
   microsecond |-> microsecond, tzinfo |-> tzinfo]

\* the host's datetime constructor
PyDateTime_new(year, month, day, hour, minute, second, microsecond, tzinfo) ==
  LET date == PyDate_new(year, month, day)
      time == PyTime_new(hour, minute, second, microsecond, tzinfo)
  IN  IF ~IsOk(date) THEN date
      ELSE IF ~IsOk(time) THEN time
      ELSE Ok(PyDateTime(year, month, day, hour, minute, second, microsecond,
                         tzinfo))

\* impl IntoPyObject for PrimitiveDateTime
PrimitiveDateTime_into_pyobject(self, lim) ==
  LET d == DateArgs_from(self.date)
      t == TimeArgs_from(self.time)
      datetime == PyDateTime_new(d.year, d.month, d.day, t.hour, t.min, t.sec,
                                 t.micro, PyNone)
  IN  IF ~IsOk(datetime) THEN Outcome(datetime, 0)
      ELSE Outcome(datetime, IF t.truncated_leap_second THEN 1 ELSE 0)

\* Variant: the tzinfo of the date-time is not looked at.
PrimitiveDateTime_extract_bound_any_tz(dt, lim) ==
  LET type_check == downcast(dt, "datetime", "PyDateTime")
      date == py_date_to_naive_date(dt, lim)
      time == py_time_to_naive_time(dt, lim)
  IN  IF ~IsOk(type_check) THEN type_check
      ELSE IF ~IsOk(date) THEN date
      ELSE IF ~IsOk(time) THEN time
      ELSE Ok(PrimitiveDateTime(date.val, time.val))

\* impl FromPyObject for PrimitiveDateTime
PrimitiveDateTime_extract_bound(dt, lim) ==
  LET type_check == downcast(dt, "datetime", "PyDateTime")
      has_tzinfo == dt.tzinfo # PyNone
      date == py_date_to_naive_date(dt, lim)
      time == py_time_to_naive_time(dt, lim)
  IN  IF ~IsOk(type_check) THEN type_check
      ELSE IF has_tzinfo
      THEN Err("TypeError", "expected a datetime without tzinfo")
      ELSE IF ~IsOk(date) THEN date
      ELSE IF ~IsOk(time) THEN time
      ELSE Ok(PrimitiveDateTime(date.val, time.val))

(***************************************************************************)
(* Host tzinfo objects: a fixed-offset timezone built from a delta, and a  *)
(* zone of the zone database.                                              *)
(***************************************************************************)
PyTimezone(offset) == [kind |-> "timezone", offset |-> offset]

PyZoneInfo(key) == [kind |-> "zoneinfo", key |-> key]

\* An instance of a tzinfo subclass written in the host language, whose
\* utcoffset(None) returns ret: a delta of any size, or None.
PyUserTz(ret) == [kind |-> "usertz", ret |-> ret]

\* the host's timezone constructor: the offset lies strictly between -24 h
\* and 24 h
PyTimezone_new(td) ==
  IF td.days \in {-1, 0} /\ td # PyDelta(-1, 0, 0)
  THEN Ok(PyTimezone(td))
  ELSE Err("ValueError",
           "offset must be a timedelta strictly between -timedelta(hours=24) and timedelta(hours=24)")

\* ob.utcoffset(None)
utcoffset(ob) ==
  IF ob.kind = "timezone" THEN ob.offset
  ELSE IF ob.kind = "usertz" THEN ob.ret
  ELSE PyNone

\* repr(ob), in pieces
Repr(ob) ==
  IF ob.kind = "zoneinfo" THEN <<"zoneinfo.ZoneInfo(key='", ob.key, "')">>
  ELSE IF ob.kind = "timezone" THEN <<"datetime.timezone(", ob.offset, ")">>
  ELSE <<"<", ob.kind, " object>">>

(***************************************************************************)
(* time::UtcOffset: whole seconds, within 25:59:59 of UTC on either side.  *)
(***************************************************************************)
MaxOffsetHours == 25

SecondsPerHour == 3600

MaxOffsetSeconds == MaxOffsetHours * SecondsPerHour + SecondsPerHour - 1

UtcOffset(seconds) == [kind |-> "UtcOffset", seconds |-> seconds]

UtcOffset_from_whole_seconds(seconds) ==
  IF seconds >= -MaxOffsetSeconds /\ seconds <= MaxOffsetSeconds
  THEN Ok(UtcOffset(seconds))
  ELSE Err("ComponentRange", "seconds")

\* i64 as i32: the low 32 bits, read as a signed number
Half == 65536

as_i32(w) ==
  LET low == MagDivSmall(w.mag, Half)
      lo == low.r
      hi == MagDivSmall(low.q, Half).r
      nlo == (Half - lo) % Half
      nhi == (Half - 1 - hi + (IF lo = 0 THEN 1 ELSE 0)) % Half
      l == IF w.neg THEN nlo ELSE lo
      h == IF w.neg THEN nhi ELSE hi
  IN  (IF h >= Half \div 2 THEN h - Half ELSE h) * Half + l

\* Variant: an offset of a day or more is wrapped into the host's range.
UtcOffset_into_pyobject_wrapping(self, lim) ==
  LET seconds_offset == IF self.seconds >= SecondsPerDay
                        THEN self.seconds - SecondsPerDay
                        ELSE IF self.seconds <= -SecondsPerDay
                        THEN self.seconds + SecondsPerDay
                        ELSE self.seconds
  IN  Bind(IF lim
           THEN Duration_into_pyobject(Duration_seconds(WFromInt(seconds_offset)), lim)
           ELSE new_delta_ex(0, seconds_offset, 0), LAMBDA td :
        IF ~IsOk(td) THEN td ELSE PyTimezone_new(td.val))

\* impl IntoPyObject for UtcOffset
UtcOffset_into_pyobject(self, lim) ==
  LET seconds_offset == self.seconds
  IN  Bind(IF lim
           THEN Duration_into_pyobject(Duration_seconds(WFromInt(seconds_offset)), lim)
           ELSE new_delta_ex(0, seconds_offset, 0), LAMBDA td :
        IF ~IsOk(td) THEN td ELSE PyTimezone_new(td.val))

\* Variant: a tzinfo that gives no offset without an instant is taken as UTC.
UtcOffset_extract_bound_none_is_utc(ob, lim) ==
  LET type_check == downcast(ob, "tzinfo", "PyTzInfo")
      py_timedelta == IF utcoffset(ob) = PyNone THEN PyDelta(0, 0, 0) ELSE utcoffset(ob)
  IN  IF ~IsOk(type_check) THEN type_check
      ELSE Bind(Duration_extract_bound(py_timedelta, lim), LAMBDA total_seconds :
             IF ~IsOk(total_seconds) THEN total_seconds
             ELSE Bind(UtcOffset_from_whole_seconds(
                         as_i32(whole_seconds(total_seconds.val))), LAMBDA offset :
                    IF ~IsOk(offset) THEN Err("ValueError", "fixed offset out of bounds")
                    ELSE offset))

\* Variant: only the whole hours of the offset are kept.
UtcOffset_extract_bound_whole_hours(ob, lim) ==
  LET type_check == downcast(ob, "tzinfo", "PyTzInfo")
      py_timedelta == utcoffset(ob)
  IN  IF ~IsOk(type_check) THEN type_check
      ELSE IF py_timedelta = PyNone
      THEN Err("TypeError", <<Repr(ob), " is not a fixed offset timezone">>)
      ELSE Bind(Duration_extract_bound(py_timedelta, lim), LAMBDA total_seconds :
             IF ~IsOk(total_seconds) THEN total_seconds
             ELSE Bind(UtcOffset_from_whole_seconds(
                         as_i32(whole_seconds(total_seconds.val))), LAMBDA offset :
                    IF ~IsOk(offset) THEN Err("ValueError", "fixed offset out of bounds")
                    ELSE Ok(UtcOffset(offset.val.seconds
                                        - (offset.val.seconds % SecondsPerHour)))))

\* impl FromPyObject for UtcOffset
UtcOffset_extract_bound(ob, lim) ==
  LET type_check == downcast(ob, "tzinfo", "PyTzInfo")
      py_timedelta == utcoffset(ob)
  IN  IF ~IsOk(type_check) THEN type_check
      ELSE IF py_timedelta = PyNone
      THEN Err("TypeError", <<Repr(ob), " is not a fixed offset timezone">>)
      ELSE Bind(Duration_extract_bound(py_timedelta, lim), LAMBDA total_seconds :
             IF ~IsOk(total_seconds) THEN total_seconds
             ELSE Bind(UtcOffset_from_whole_seconds(
                         as_i32(whole_seconds(total_seconds.val))), LAMBDA offset :
                    IF ~IsOk(offset) THEN Err("ValueError", "fixed offset out of bounds")
                    ELSE offset))

(***************************************************************************)
(* Date-times with an offset.                                              *)
(***************************************************************************)
OffsetDateTime(date, time, offset) ==
  [kind |-> "OffsetDateTime", date |-> date, time |-> time, offset |-> offset]

\* fn primitive_datetime_to_py_datetime
primitive_datetime_to_py_datetime(primitive_date_time, tzinfo, lim) ==
  LET d == DateArgs_from(primitive_date_time.date)
      t == TimeArgs_from(primitive_date_time.time)
      datetime == PyDateTime_new(d.year, d.month, d.day, t.hour, t.min, t.sec,
                                 t.micro, tzinfo)
  IN  IF ~IsOk(datetime)
      THEN Outcome(Panic(IF lim THEN "failed to construct datetime.datetime"
                         ELSE "failed to construct datetime"), 0)
      ELSE Outcome(datetime, IF t.truncated_leap_second THEN 1 ELSE 0)

\* impl ToPyObject for OffsetDateTime
OffsetDateTime_to_object(self, lim) ==
  primitive_datetime_to_py_datetime(PrimitiveDateTime(self.date, self.time), PyNone, lim)

\* Variant: the host date-time is constructed before the offset is looked at.
OffsetDateTime_into_pyobject_offset_last(self, lim) ==
  LET d == DateArgs_from(self.date)
      t == TimeArgs_from(self.time)
  IN  Bind(PyDateTime_new(d.year, d.month, d.day, t.hour, t.min, t.sec,
                          t.micro, PyNone), LAMBDA naive :
        IF ~IsOk(naive) THEN Outcome(naive, 0)
        ELSE Bind(UtcOffset_into_pyobject(self.offset, lim), LAMBDA tz :
               IF ~IsOk(tz) THEN Outcome(tz, 0)
               ELSE Outcome(Ok([naive.val EXCEPT !.tzinfo = tz.val]),
                            IF t.truncated_leap_second THEN 1 ELSE 0)))

\* impl IntoPyObject for &OffsetDateTime
OffsetDateTime_into_pyobject(self, lim) ==
  LET d == DateArgs_from(self.date)
      t == TimeArgs_from(self.time)
  IN  Bind(UtcOffset_into_pyobject(self.offset, lim), LAMBDA tz :
        IF ~IsOk(tz) THEN Outcome(tz, 0)
        ELSE Bind(PyDateTime_new(d.year, d.month, d.day, t.hour, t.min, t.sec,
                                 t.micro, tz.val), LAMBDA datetime :
               IF ~IsOk(datetime) THEN Outcome(datetime, 0)
               ELSE Outcome(datetime, IF t.truncated_leap_second THEN 1 ELSE 0)))

\* Variant: a date-time without tzinfo is taken to be at UTC.
OffsetDateTime_extract_bound_naive_as_utc(dt, lim) ==
  LET type_check == downcast(dt, "datetime", "PyDateTime")
      date == py_date_to_naive_date(dt, lim)
      time == py_time_to_naive_time(dt, lim)
  IN  IF ~IsOk(type_check) THEN type_check
      ELSE Bind(IF dt.tzinfo = PyNone THEN Ok(UtcOffset(0))
                ELSE UtcOffset_extract_bound(dt.tzinfo, lim), LAMBDA tz :
             IF ~IsOk(tz) THEN tz
             ELSE IF ~IsOk(date) THEN date
             ELSE IF ~IsOk(time) THEN time
             ELSE Ok(OffsetDateTime(date.val, time.val, tz.val)))

\* Variant: the date and the time are read before the tzinfo is looked at.
OffsetDateTime_extract_bound_fields_first(dt, lim) ==
  LET type_check == downcast(dt, "datetime", "PyDateTime")
      tzinfo == dt.tzinfo
      date == py_date_to_naive_date(dt, lim)
      time == py_time_to_naive_time(dt, lim)
  IN  IF ~IsOk(type_check) THEN type_check
      ELSE IF ~IsOk(date) THEN date
      ELSE IF ~IsOk(time) THEN time
      ELSE IF tzinfo = PyNone
      THEN Err("TypeError", "expected a datetime with non-None tzinfo")
      ELSE Bind(UtcOffset_extract_bound(tzinfo, lim), LAMBDA tz :
             IF ~IsOk(tz) THEN tz
             ELSE Ok(OffsetDateTime(date.val, time.val, tz.val)))

\* impl FromPyObject for OffsetDateTime
OffsetDateTime_extract_bound(dt, lim) ==
  LET type_check == downcast(dt, "datetime", "PyDateTime")
      tzinfo == dt.tzinfo
      date == py_date_to_naive_date(dt, lim)
      time == py_time_to_naive_time(dt, lim)
  IN  IF ~IsOk(type_check) THEN type_check
      ELSE IF tzinfo = PyNone
      THEN Err("TypeError", "expected a datetime with non-None tzinfo")
      ELSE Bind(UtcOffset_extract_bound(tzinfo, lim), LAMBDA tz :
             IF ~IsOk(tz) THEN tz
             ELSE IF ~IsOk(date) THEN date
             ELSE IF ~IsOk(time) THEN time
             ELSE Ok(OffsetDateTime(date.val, time.val, tz.val)))

\* .unwrap() of the legacy entry points to_object and into_py
unwrap(r) ==
  IF IsOk(r) THEN r ELSE Panic("called Result::unwrap() on an Err value")

(***************************************************************************)
(* The values the conversions are applied to: native values and host       *)
(* objects at and around every boundary of either side.                    *)
(***************************************************************************)
DayMagnitudes ==
  {WFromInt(k) : k \in 0..DaySpread}
    \cup {WFromInt(k) : k \in (MaxDeltaDays - DaySpread)..(MaxDeltaDays + DaySpread)}
    \cup {WAdd(WFromInt(I32Max), WFromInt(k)) : k \in (-DaySpread)..(DaySpread + 1)}

SecOffsets == (0..SecSpread) \cup ((SecondsPerDay - 1 - SecSpread)..(SecondsPerDay - 1))

NanoOffsets ==
  (0..SubSpread)
    \cup ((NanosPerMicro - SubSpread)..NanosPerMicro)
    \cup ((NanosPerSecond - NanosPerMicro - SubSpread)..(NanosPerSecond - NanosPerMicro))
    \cup ((NanosPerSecond - 1 - SubSpread)..(NanosPerSecond - 1))

MicroOffsets == (0..SubSpread) \cup ((MicrosPerSecond - 1 - SubSpread)..(MicrosPerSecond - 1))

\* the duration of the given sign, whole days, and sub-day seconds and nanoseconds
DurationOf(neg, days, secs, nanos) ==
  LET s == WAdd(WMulSmall(days, SecondsPerDay), WFromInt(secs))
  IN  Duration(W(neg, s.mag), IF neg THEN -nanos ELSE nanos)

DurationMAX == Duration(I64MaxW, NanosPerSecond - 1)

DurationMIN == Duration(I64MinW, -(NanosPerSecond - 1))

\* -1 day + 1 s - 10 us, the delta of test_pyo3_timedelta_into_pyobject
TestDelta == Duration(WFromInt(1 - SecondsPerDay), -10 * NanosPerMicro)

DurationInputs ==
  {DurationOf(neg, days, secs, nanos) :
     neg \in BOOLEAN, days \in DayMagnitudes, secs \in SecOffsets, nanos \in NanoOffsets}
    \cup {DurationMIN, DurationMAX, TestDelta}

HostDays ==
  ((-MaxDeltaDays)..(-MaxDeltaDays + DaySpread))
    \cup ((-DaySpread)..DaySpread)
    \cup ((MaxDeltaDays - DaySpread)..MaxDeltaDays)

HostDeltas ==
  {PyDelta(d, s, u) : d \in HostDays, s \in SecOffsets, u \in MicroOffsets}

\* years around the ends of the host's range and at the ends of the native
\* range, as far as time::Date holds them
YearInputs ==
  {y \in ((MinYear - YearSpread)..(MinYear + YearSpread))
            \cup ((MaxYear - YearSpread)..(MaxYear + YearSpread))
            \cup {-NativeMaxYear, -2000, 2000, 2012, 2100, NativeMaxYear} :
     y >= -NativeMaxYear /\ y <= NativeMaxYear}

DayInputs == {1, 28, 29, 30, 31}

DateInputs ==
  {dt \in {Date(y, m, d) : y \in YearInputs, m \in 1..12, d \in DayInputs} :
     dt.day <= days_in_month(dt.year, dt.month)}

HostDates ==
  {PyDate(dt.year, dt.month, dt.day) :
     dt \in {x \in DateInputs : x.year >= MinYear /\ x.year <= MaxYear}}

TimeInputs ==
  {Time(h, m, s, n) : h \in {0, 23}, m \in {0, 59}, s \in {0, 59}, n \in NanoOffsets}

HostTzinfos ==
  {PyNone, PyTimezone(PyDelta(0, 0, 0)), PyTimezone(PyDelta(0, 3600, 0)),
   PyZoneInfo("Europe/London")}

HostTimes ==
  {PyTime(h, m, s, u, tz) :
     h \in {0, 23}, m \in {0, 59}, s \in {0, 59}, u \in MicroOffsets,
     tz \in HostTzinfos}

CornerDates ==
  {Date(MinYear, 1, 1), Date(2012, 2, 29), Date(2022, 1, 1), Date(MaxYear, 12, 31),
   Date(MinYear - 1, 12, 31)}

PrimitiveDateTimeInputs ==
  {PrimitiveDateTime(d, t) : d \in CornerDates, t \in TimeInputs}

HostDateTimes ==
  {PyDateTime(d.year, d.month, d.day, t.hour, t.minute, t.second, t.microsecond, tz) :
     d \in {x \in CornerDates : x.year >= MinYear /\ x.year <= MaxYear},
     t \in {x \in HostTimes : x.tzinfo = PyNone},
     tz \in HostTzinfos}

\* offsets of whole seconds around zero, around one hour, and around the
\* ends of the host's and of the native range
OffsetSeconds ==
  ((-OffsetSpread)..OffsetSpread)
    \cup {-SecondsPerHour, SecondsPerHour}
    \cup ((SecondsPerDay - 1 - OffsetSpread)..(SecondsPerDay - 1 + OffsetSpread))
    \cup ((1 - SecondsPerDay - OffsetSpread)..(1 - SecondsPerDay + OffsetSpread))
    \cup {-MaxOffsetSeconds, MaxOffsetSeconds}

UtcOffsetInputs == {UtcOffset(s) : s \in OffsetSeconds}

\* host timezones of a fixed offset, as the host's constructor accepts them
HostTimezones ==
  {PyTimezone(new_delta_ex(0, s, 0).val) :
     s \in {x \in OffsetSeconds : x > -SecondsPerDay /\ x < SecondsPerDay}}
    \cup {PyTimezone(PyDelta(0, SecondsPerHour, MicrosPerSecond \div 2))}

\* deltas a tzinfo subclass may return: one day and more either way, the
\* ends of the native range, 2^31 - 1, 2^31 and 2^32 seconds, the extremes
BigDeltas ==
  {PyDelta(1, 0, 0), PyDelta(-1, 0, 0),
   PyDelta(1, 2 * SecondsPerHour - 1, 0), PyDelta(1, 2 * SecondsPerHour, 0),
   PyDelta(-2, SecondsPerDay - 2 * SecondsPerHour + 1, 0),
   PyDelta(24855, 11647, 0), PyDelta(24855, 11648, 0),
   PyDelta(49710, 23296, 0), PyDelta(-49711, 63104, 0),
   PyDelta(MaxDeltaDays, 0, 0), PyDelta(-MaxDeltaDays, 0, 0)}

HostUserTzs ==
  {PyUserTz(ret) : ret \in BigDeltas \cup {PyNone, PyDelta(0, SecondsPerHour, 0),
                                           PyDate(2022, 1, 1)}}

HostTzObjects == HostTimezones \cup HostUserTzs \cup {PyZoneInfo("Europe/London")}

\* date-times of test_timezone_aware_to_naive_fails with every tzinfo
AwareDateTimes ==
  {PyDateTime(d.year, d.month, d.day, 1, 0, 0, 0, tz) :
     d \in {Date(2022, 1, 1), Date(2012, 2, 29)}, tz \in HostTzObjects}

OffsetDateTimeInputs ==
  {OffsetDateTime(d, t, UtcOffset(s)) :
     d \in CornerDates,
     t \in {x \in TimeInputs : x.hour = 23 /\ x.minute = 59},
     s \in {1 - SecondsPerDay, -SecondsPerHour, 0, SecondsPerHour,
            SecondsPerDay - 1, SecondsPerDay}}

MonthInputs == {Month(n) : n \in 1..12}

\* host integers: the month numbers, their neighbours and the ends of u8
HostInts == {PyInt(n) : n \in (-1)..13} \cup {PyInt(255), PyInt(256)}

HostObjects ==
  HostDeltas \cup HostDates \cup HostTimes \cup HostDateTimes
    \cup HostTzObjects \cup AwareDateTimes \cup HostInts

\* the values handed to the deprecated entry points
LegacyDurations == {DurationMIN, DurationMAX, TestDelta, Duration(WZero, 0)}

LegacyDates == {d \in DateInputs : d.month = 2 /\ d.day = 28}

LegacyTimes == {t \in TimeInputs : t.hour = 23 /\ t.minute = 59 /\ t.second = 59}

LegacyDateTimes == {x \in PrimitiveDateTimeInputs : x.time \in LegacyTimes}

LegacyOffsetDateTimes == {x \in OffsetDateTimeInputs : x.time \in LegacyTimes}

(***************************************************************************)
(* The table of host types of the Py_LIMITED_API build: a static           *)
(* GILOnceCell<DatetimeTypes>, filled on first use.  GILOnceCell is        *)
(* defined outside this file; its set and get_or_try_init are written down *)
(* from the write-once, initialized-on-first-use behaviour the             *)
(* specification describes for the cache.                                  *)
(***************************************************************************)
Unset == [kind |-> "unset"]

\* the table the initializer run by thread by builds
DatetimeTypes(by) ==
  [kind |-> "DatetimeTypes", date |-> "datetime.date",
   datetime |-> "datetime.datetime", time |-> "datetime.time",
   timedelta |-> "datetime.timedelta", timezone |-> "datetime.timezone",
   timezone_utc |-> "datetime.timezone.utc", tzinfo |-> "datetime.tzinfo",
   by |-> by]

\* GILOnceCell::set: the cell is written once, the first value stays
GILOnceCell_set_overwriting(cell, value) == value

GILOnceCell_set(cell, value) == IF cell = Unset THEN value ELSE cell

\* GILOnceCell::get_or_try_init run without interruption, value being what
\* the initializer returns: a filled cell gives its content and the
\* initializer is not consulted; an initializer that fails gives its error
\* and leaves the cell empty; a table is set and the cell's content returned
GILOnceCell_get_or_try_init(cell, value) ==
  IF cell # Unset THEN [res |-> Ok(cell), cell |-> cell]
  ELSE IF ~IsOk(value) THEN [res |-> value, cell |-> cell]
  ELSE [res |-> Ok(GILOnceCell_set(cell, value.val)),
        cell |-> GILOnceCell_set(cell, value.val)]

\* What the host has under the name datetime: found tells whether the
\* module can be imported, lacks the attributes it does not have.
Standard == [found |-> TRUE, lacks |-> {}]

Absent == [found |-> FALSE, lacks |-> {}]

Lacking(attrs) == [found |-> TRUE, lacks |-> attrs]

\* the attributes the initializer reads, in the order it reads them
TableAttrs == <<"timezone", "date", "datetime", "time", "timedelta", "utc", "tzinfo">>

\* a module of that name with nothing in it
EmptyModule == Lacking({TableAttrs[i] : i \in 1..Len(TableAttrs)} \cup {"datetime_CAPI"})

HostModules == {Standard, Absent, EmptyModule}

\* the error of getattr(name)?
AttributeError(name) ==
  Err("AttributeError",
      CASE name = "timezone" -> "module 'datetime' has no attribute 'timezone'"
        [] name = "date" -> "module 'datetime' has no attribute 'date'"
        [] name = "datetime" -> "module 'datetime' has no attribute 'datetime'"
        [] name = "time" -> "module 'datetime' has no attribute 'time'"
        [] name = "timedelta" -> "module 'datetime' has no attribute 'timedelta'"
        [] name = "utc" -> "type object 'datetime.timezone' has no attribute 'utc'"
        [] name = "tzinfo" -> "module 'datetime' has no attribute 'tzinfo'"
        [] name = "datetime_CAPI"
             -> "module 'datetime' has no attribute 'datetime_CAPI'")

\* the initializer: py.import("datetime")? and the getattr(..)? calls, the
\* first that fails ending it with its error
DatetimeTypes_load(imp, by) ==
  LET missing == {i \in 1..Len(TableAttrs) : TableAttrs[i] \in imp.lacks}
  IN  IF ~imp.found
      THEN Err("ModuleNotFoundError", "No module named 'datetime'")
      ELSE IF missing # {}
      THEN AttributeError(TableAttrs[CHOOSE i \in missing : \A j \in missing : i <= j])
      ELSE Ok(DatetimeTypes(by))

\* Variant: the call that fills the table reports an error.
DatetimeTypes_try_get_cold_error(cell, imp) ==
  IF cell # Unset THEN [res |-> Ok(cell), cell |-> cell]
  ELSE [res |-> Err("RuntimeError", "datetime types not loaded"),
        cell |-> DatetimeTypes(0)]

\* DatetimeTypes::try_get: TYPES.get_or_try_init(py, || { ... }) on the
\* static cell, with the initializer that imports the host module: the
\* result and the cell after it
DatetimeTypes_try_get(cell, imp) ==
  GILOnceCell_get_or_try_init(cell, DatetimeTypes_load(imp, 0))

\* DatetimeTypes::get
DatetimeTypes_get(cell, imp) ==
  LET t == DatetimeTypes_try_get(cell, imp)
  IN  [res |-> IF IsOk(t.res) THEN t.res ELSE Panic("failed to load datetime module"),
       cell |-> t.cell]

(***************************************************************************)
(* The default build reaches the host's types through the datetime C API,  *)
(* a capsule of the host module that the binding imports at the first use  *)
(* and keeps; api is the pointer to it, Unset until then.  The binding's   *)
(* constructors (PyDelta::new, PyDate::new, ...) return the error of a     *)
(* failed import, its type checks panic on it.  Both are defined outside   *)
(* this file.                                                              *)
(***************************************************************************)
PyDateTime_CAPI == [kind |-> "PyDateTime_CAPI"]

\* ensure_datetime_api: the result and the pointer after it
ensure_datetime_api(api, imp) ==
  IF api # Unset THEN [res |-> Ok(api), cell |-> api]
  ELSE IF ~imp.found
  THEN [res |-> Err("ImportError",
                    "PyCapsule_Import could not import module \"datetime\""),
        cell |-> api]
  ELSE IF "datetime_CAPI" \in imp.lacks
  THEN [res |-> AttributeError("datetime_CAPI"), cell |-> api]
  ELSE [res |-> Ok(PyDateTime_CAPI), cell |-> PyDateTime_CAPI]

\* expect_datetime_api, of the type checks (the message, which quotes the
\* module's name in backquotes, is written here without them)
expect_datetime_api(api, imp) ==
  LET a == ensure_datetime_api(api, imp)
  IN  [res |-> IF IsOk(a.res) THEN a.res
               ELSE Panic("failed to import datetime C API"),
       cell |-> a.cell]

(***************************************************************************)
(* Every entry point obtains the host's types before anything else.  The   *)
(* limited build: the exports with try_get, the imports and                *)
(* OffsetDateTime::to_object with get.  The default build: the exports     *)
(* with the C API of the constructor, the imports with that of the type    *)
(* check.                                                                  *)
(***************************************************************************)
\* the outcome out of an export that needed DatetimeTypes::try_get, or the
\* C API of the host constructor, first
via_try_get(lim, cell, api, imp, out) ==
  LET t == IF lim THEN DatetimeTypes_try_get(cell, imp)
           ELSE ensure_datetime_api(api, imp)
  IN  IF ~IsOk(t.res) THEN Outcome(t.res, 0) ELSE out

\* the outcome out of an import that needed DatetimeTypes::get, or the C
\* API of the type check, first
via_get(lim, cell, api, imp, out) ==
  LET t == IF lim THEN DatetimeTypes_get(cell, imp)
           ELSE expect_datetime_api(api, imp)
  IN  IF ~IsOk(t.res) THEN Outcome(t.res, 0) ELSE out

\* the outcome out of primitive_datetime_to_py_datetime: DatetimeTypes::get
\* first, or PyDateTime::new(..).expect("failed to construct datetime")
via_expect(lim, cell, api, imp, out) ==
  LET t == IF lim THEN DatetimeTypes_get(cell, imp)
           ELSE ensure_datetime_api(api, imp)
  IN  IF IsOk(t.res) THEN out
      ELSE IF lim THEN Outcome(t.res, 0)
      ELSE Outcome(Panic("failed to construct datetime"), 0)

\* self.into_pyobject(py).unwrap() of to_object and into_py
unwrapped(out) == Outcome(unwrap(out.res), out.warnings)

\* the cell after any entry point has run
CellAfter(lim, cell, imp) ==
  IF lim THEN DatetimeTypes_try_get(cell, imp).cell ELSE cell

\* the pointer to the C API after any entry point has run
ApiAfter(lim, api, imp) ==
  IF lim THEN api ELSE ensure_datetime_api(api, imp).cell

(***************************************************************************)
(* The state machine.  limited is the build (Py_LIMITED_API or not); host  *)
(* is the host object held; src is the native value host was exported      *)
(* from, if it was; last is the last conversion: its name, argument,       *)
(* result and the number of warnings it emitted; TYPES is the static cell  *)
(* of the host type table and API the pointer to the datetime C API;       *)
(* hostmod is what the host has under the name datetime.  hostmod, memo,   *)
(* pc and mine belong to the specifications further down and stay as they  *)
(* are here.                                                               *)
(***************************************************************************)
NoNative == [kind |-> "none"]

Call(op, arg, res, warnings) ==
  [op |-> op, arg |-> arg, res |-> res, warnings |-> warnings]

Idle == Call("idle", PyNone, Ok(PyNone), 0)

NoMemo == [kind |-> "none"]

Threads == 1..NumThreads

Init ==
  /\ limited \in BOOLEAN
  /\ host = PyNone
  /\ src = NoNative
  /\ last = Idle
  /\ TYPES = Unset
  /\ API = Unset
  /\ hostmod = Standard
  /\ memo = NoMemo
  /\ pc = [t \in Threads |-> "idle"]
  /\ mine = [t \in Threads |-> Unset]

fixed == <<limited, hostmod, memo, pc, mine>>

\* The host side constructs an object of its own.
HostNew ==
  \E ob \in HostObjects :
    /\ last.op = "idle"
    /\ host' = ob
    /\ src' = NoNative
    /\ last' = Call("host_new", PyNone, Ok(ob), 0)
    /\ UNCHANGED <<TYPES, API, fixed>>

\* The object held is released.
Drop ==
  /\ last.op # "idle"
  /\ host' = PyNone
  /\ src' = NoNative
  /\ last' = Idle
  /\ UNCHANGED <<TYPES, API, fixed>>

ExportDuration ==
  /\ last.op = "idle"
  /\ \E self \in DurationInputs :
       \E out \in {via_try_get(limited, TYPES, API, hostmod,
                  Outcome(Duration_into_pyobject(self, limited), 0))} :
          /\ last' = Call("Duration::into_pyobject", self, out.res, out.warnings)
          /\ host' = (IF IsOk(out.res) THEN out.res.val ELSE host)
          /\ src' = (IF IsOk(out.res) THEN self ELSE src)
          /\ TYPES' = CellAfter(limited, TYPES, hostmod)
          /\ API' = ApiAfter(limited, API, hostmod)
          /\ UNCHANGED fixed

ImportDuration ==
  \E out \in {via_get(limited, TYPES, API, hostmod,
                    Outcome(Duration_extract_bound(host, limited), 0))} :
    /\ last' = Call("Duration::extract_bound", host, out.res, out.warnings)
    /\ TYPES' = CellAfter(limited, TYPES, hostmod)
    /\ API' = ApiAfter(limited, API, hostmod)
    /\ UNCHANGED <<host, src, fixed>>

\* The duration just imported is exported again; the object it was read
\* from is still held.
ReExportDuration ==
  /\ last.op = "Duration::extract_bound"
  /\ IsOk(last.res)
  /\ \E out \in {via_try_get(limited, TYPES, API, hostmod,
                Outcome(Duration_into_pyobject(last.res.val, limited), 0))} :
       /\ last' = Call("Duration::into_pyobject", last.res.val, out.res, out.warnings)
       /\ TYPES' = CellAfter(limited, TYPES, hostmod)
       /\ API' = ApiAfter(limited, API, hostmod)
       /\ UNCHANGED <<host, src, fixed>>

ExportDate ==
  /\ last.op = "idle"
  /\ \E self \in DateInputs :
       \E out \in {via_try_get(limited, TYPES, API, hostmod,
                  Outcome(Date_into_pyobject(self, limited), 0))} :
          /\ last' = Call("Date::into_pyobject", self, out.res, out.warnings)
          /\ host' = (IF IsOk(out.res) THEN out.res.val ELSE host)
          /\ src' = (IF IsOk(out.res) THEN self ELSE src)
          /\ TYPES' = CellAfter(limited, TYPES, hostmod)
          /\ API' = ApiAfter(limited, API, hostmod)
          /\ UNCHANGED fixed

ImportDate ==
  \E out \in {via_get(limited, TYPES, API, hostmod,
                    Outcome(Date_extract_bound(host, limited), 0))} :
    /\ last' = Call("Date::extract_bound", host, out.res, out.warnings)
    /\ TYPES' = CellAfter(limited, TYPES, hostmod)
    /\ API' = ApiAfter(limited, API, hostmod)
    /\ UNCHANGED <<host, src, fixed>>

ExportTime ==
  /\ last.op = "idle"
  /\ \E self \in TimeInputs :
       \E out \in {via_try_get(limited, TYPES, API, hostmod, Time_into_pyobject(self,
                  limited))} :
          /\ last' = Call("Time::into_pyobject", self, out.res, out.warnings)
          /\ host' = (IF IsOk(out.res) THEN out.res.val ELSE host)
          /\ src' = (IF IsOk(out.res) THEN self ELSE src)
          /\ TYPES' = CellAfter(limited, TYPES, hostmod)
          /\ API' = ApiAfter(limited, API, hostmod)
          /\ UNCHANGED fixed

ImportTime ==
  \E out \in {via_get(limited, TYPES, API, hostmod,
                    Outcome(Time_extract_bound(host, limited), 0))} :
    /\ last' = Call("Time::extract_bound", host, out.res, out.warnings)
    /\ TYPES' = CellAfter(limited, TYPES, hostmod)
    /\ API' = ApiAfter(limited, API, hostmod)
    /\ UNCHANGED <<host, src, fixed>>

ExportPrimitiveDateTime ==
  /\ last.op = "idle"
  /\ \E self \in PrimitiveDateTimeInputs :
       \E out \in {via_try_get(limited, TYPES, API, hostmod,
                  PrimitiveDateTime_into_pyobject(self, limited))} :
          /\ last' = Call("PrimitiveDateTime::into_pyobject", self, out.res, out.warnings)
          /\ host' = (IF IsOk(out.res) THEN out.res.val ELSE host)
          /\ src' = (IF IsOk(out.res) THEN self ELSE src)
          /\ TYPES' = CellAfter(limited, TYPES, hostmod)
          /\ API' = ApiAfter(limited, API, hostmod)
          /\ UNCHANGED fixed

ImportPrimitiveDateTime ==
  \E out \in {via_get(limited, TYPES, API, hostmod,
                    Outcome(PrimitiveDateTime_extract_bound(host, limited), 0))} :
    /\ last' = Call("PrimitiveDateTime::extract_bound", host, out.res, out.warnings)
    /\ TYPES' = CellAfter(limited, TYPES, hostmod)
    /\ API' = ApiAfter(limited, API, hostmod)
    /\ UNCHANGED <<host, src, fixed>>

ExportOffsetDateTime ==
  /\ last.op = "idle"
  /\ \E self \in OffsetDateTimeInputs :
       \E out \in {via_try_get(limited, TYPES, API, hostmod,
                  OffsetDateTime_into_pyobject(self, limited))} :
          /\ last' = Call("OffsetDateTime::into_pyobject", self, out.res, out.warnings)
          /\ host' = (IF IsOk(out.res) THEN out.res.val ELSE host)
          /\ src' = (IF IsOk(out.res) THEN self ELSE src)
          /\ TYPES' = CellAfter(limited, TYPES, hostmod)
          /\ API' = ApiAfter(limited, API, hostmod)
          /\ UNCHANGED fixed

ImportOffsetDateTime ==
  \E out \in {via_get(limited, TYPES, API, hostmod,
                    Outcome(OffsetDateTime_extract_bound(host, limited), 0))} :
    /\ last' = Call("OffsetDateTime::extract_bound", host, out.res, out.warnings)
    /\ TYPES' = CellAfter(limited, TYPES, hostmod)
    /\ API' = ApiAfter(limited, API, hostmod)
    /\ UNCHANGED <<host, src, fixed>>

ExportUtcOffset ==
  /\ last.op = "idle"
  /\ \E self \in UtcOffsetInputs :
       \E out \in {via_try_get(limited, TYPES, API, hostmod,
                  Outcome(UtcOffset_into_pyobject(self, limited), 0))} :
          /\ last' = Call("UtcOffset::into_pyobject", self, out.res, out.warnings)
          /\ host' = (IF IsOk(out.res) THEN out.res.val ELSE host)
          /\ src' = (IF IsOk(out.res) THEN self ELSE src)
          /\ TYPES' = CellAfter(limited, TYPES, hostmod)
          /\ API' = ApiAfter(limited, API, hostmod)
          /\ UNCHANGED fixed

ImportUtcOffset ==
  \E out \in {via_get(limited, TYPES, API, hostmod,
                    Outcome(UtcOffset_extract_bound(host, limited), 0))} :
    /\ last' = Call("UtcOffset::extract_bound", host, out.res, out.warnings)
    /\ TYPES' = CellAfter(limited, TYPES, hostmod)
    /\ API' = ApiAfter(limited, API, hostmod)
    /\ UNCHANGED <<host, src, fixed>>

ExportMonth ==
  /\ last.op = "idle"
  /\ \E self \in MonthInputs :
       \E out \in {Month_export(self)} :
          /\ last' = Call("Month::into_pyobject", self, out, 0)
          /\ host' = (IF IsOk(out) THEN out.val ELSE host)
          /\ src' = (IF IsOk(out) THEN self ELSE src)
          /\ UNCHANGED <<TYPES, API, fixed>>

ImportMonth ==
  \E out \in {Month_import(host)} :
    /\ last' = Call("Month::extract_bound", host, out, 0)
    /\ UNCHANGED <<host, src, TYPES, API, fixed>>

\* The deprecated entry points to_object and into_py.
ToObjectDuration ==
  /\ last.op = "idle"
  /\ \E self \in LegacyDurations :
       \E out \in {unwrapped(via_try_get(limited, TYPES, API, hostmod,
                  Outcome(Duration_into_pyobject(self, limited), 0)))} :
          /\ last' = Call("Duration::to_object", self, out.res, out.warnings)
          /\ host' = (IF IsOk(out.res) THEN out.res.val ELSE host)
          /\ src' = (IF IsOk(out.res) THEN self ELSE src)
          /\ TYPES' = CellAfter(limited, TYPES, hostmod)
          /\ API' = ApiAfter(limited, API, hostmod)
          /\ UNCHANGED fixed

IntoPyDuration ==
  /\ last.op = "idle"
  /\ \E self \in LegacyDurations :
       \E out \in {unwrapped(via_try_get(limited, TYPES, API, hostmod,
                  Outcome(Duration_into_pyobject(self, limited), 0)))} :
          /\ last' = Call("Duration::into_py", self, out.res, out.warnings)
          /\ host' = (IF IsOk(out.res) THEN out.res.val ELSE host)
          /\ src' = (IF IsOk(out.res) THEN self ELSE src)
          /\ TYPES' = CellAfter(limited, TYPES, hostmod)
          /\ API' = ApiAfter(limited, API, hostmod)
          /\ UNCHANGED fixed

ToObjectDate ==
  /\ last.op = "idle"
  /\ \E self \in LegacyDates :
       \E out \in {unwrapped(via_try_get(limited, TYPES, API, hostmod,
                  Outcome(Date_into_pyobject(self, limited), 0)))} :
          /\ last' = Call("Date::to_object", self, out.res, out.warnings)
          /\ host' = (IF IsOk(out.res) THEN out.res.val ELSE host)
          /\ src' = (IF IsOk(out.res) THEN self ELSE src)
          /\ TYPES' = CellAfter(limited, TYPES, hostmod)
          /\ API' = ApiAfter(limited, API, hostmod)
          /\ UNCHANGED fixed

IntoPyDate ==
  /\ last.op = "idle"
  /\ \E self \in LegacyDates :
       \E out \in {unwrapped(via_try_get(limited, TYPES, API, hostmod,
                  Outcome(Date_into_pyobject(self, limited), 0)))} :
          /\ last' = Call("Date::into_py", self, out.res, out.warnings)
          /\ host' = (IF IsOk(out.res) THEN out.res.val ELSE host)
          /\ src' = (IF IsOk(out.res) THEN self ELSE src)
          /\ TYPES' = CellAfter(limited, TYPES, hostmod)
          /\ API' = ApiAfter(limited, API, hostmod)
          /\ UNCHANGED fixed

ToObjectTime ==
  /\ last.op = "idle"
  /\ \E self \in LegacyTimes :
       \E out \in {unwrapped(via_try_get(limited, TYPES, API, hostmod,
                  Time_into_pyobject(self, limited)))} :
          /\ last' = Call("Time::to_object", self, out.res, out.warnings)
          /\ host' = (IF IsOk(out.res) THEN out.res.val ELSE host)
          /\ src' = (IF IsOk(out.res) THEN self ELSE src)
          /\ TYPES' = CellAfter(limited, TYPES, hostmod)
          /\ API' = ApiAfter(limited, API, hostmod)
          /\ UNCHANGED fixed

IntoPyTime ==
  /\ last.op = "idle"
  /\ \E self \in LegacyTimes :
       \E out \in {unwrapped(via_try_get(limited, TYPES, API, hostmod,
                  Time_into_pyobject(self, limited)))} :
          /\ last' = Call("Time::into_py", self, out.res, out.warnings)
          /\ host' = (IF IsOk(out.res) THEN out.res.val ELSE host)
          /\ src' = (IF IsOk(out.res) THEN self ELSE src)
          /\ TYPES' = CellAfter(limited, TYPES, hostmod)
          /\ API' = ApiAfter(limited, API, hostmod)
          /\ UNCHANGED fixed

ToObjectPrimitiveDateTime ==
  /\ last.op = "idle"
  /\ \E self \in LegacyDateTimes :
       \E out \in {unwrapped(via_try_get(limited, TYPES, API, hostmod,
                  PrimitiveDateTime_into_pyobject(self, limited)))} :
          /\ last' = Call("PrimitiveDateTime::to_object", self, out.res, out.warnings)
          /\ host' = (IF IsOk(out.res) THEN out.res.val ELSE host)
          /\ src' = (IF IsOk(out.res) THEN self ELSE src)
          /\ TYPES' = CellAfter(limited, TYPES, hostmod)
          /\ API' = ApiAfter(limited, API, hostmod)
          /\ UNCHANGED fixed

IntoPyPrimitiveDateTime ==
  /\ last.op = "idle"
  /\ \E self \in LegacyDateTimes :
       \E out \in {unwrapped(via_try_get(limited, TYPES, API, hostmod,
                  PrimitiveDateTime_into_pyobject(self, limited)))} :
          /\ last' = Call("PrimitiveDateTime::into_py", self, out.res, out.warnings)
          /\ host' = (IF IsOk(out.res) THEN out.res.val ELSE host)
          /\ src' = (IF IsOk(out.res) THEN self ELSE src)
          /\ TYPES' = CellAfter(limited, TYPES, hostmod)
          /\ API' = ApiAfter(limited, API, hostmod)
          /\ UNCHANGED fixed

ToObjectOffsetDateTime ==
  /\ last.op = "idle"
  /\ \E self \in LegacyOffsetDateTimes :
       \E out \in {via_expect(limited, TYPES, API, hostmod, OffsetDateTime_to_object(self,
                  limited))} :
          /\ last' = Call("OffsetDateTime::to_object", self, out.res, out.warnings)
          /\ host' = (IF IsOk(out.res) THEN out.res.val ELSE host)
          /\ src' = (IF IsOk(out.res) THEN self ELSE src)
          /\ TYPES' = CellAfter(limited, TYPES, hostmod)
          /\ API' = ApiAfter(limited, API, hostmod)
          /\ UNCHANGED fixed

IntoPyOffsetDateTime ==
  /\ last.op = "idle"
  /\ \E self \in LegacyOffsetDateTimes :
       \E out \in {unwrapped(via_try_get(limited, TYPES, API, hostmod,
                  OffsetDateTime_into_pyobject(self, limited)))} :
          /\ last' = Call("OffsetDateTime::into_py", self, out.res, out.warnings)
          /\ host' = (IF IsOk(out.res) THEN out.res.val ELSE host)
          /\ src' = (IF IsOk(out.res) THEN self ELSE src)
          /\ TYPES' = CellAfter(limited, TYPES, hostmod)
          /\ API' = ApiAfter(limited, API, hostmod)
          /\ UNCHANGED fixed

ToObjectUtcOffset ==
  /\ last.op = "idle"
  /\ \E self \in UtcOffsetInputs :
       \E out \in {unwrapped(via_try_get(limited, TYPES, API, hostmod,
                  Outcome(UtcOffset_into_pyobject(self, limited), 0)))} :
          /\ last' = Call("UtcOffset::to_object", self, out.res, out.warnings)
          /\ host' = (IF IsOk(out.res) THEN out.res.val ELSE host)
          /\ src' = (IF IsOk(out.res) THEN self ELSE src)
          /\ TYPES' = CellAfter(limited, TYPES, hostmod)
          /\ API' = ApiAfter(limited, API, hostmod)
          /\ UNCHANGED fixed

IntoPyUtcOffset ==
  /\ last.op = "idle"
  /\ \E self \in UtcOffsetInputs :
       \E out \in {unwrapped(via_try_get(limited, TYPES, API, hostmod,
                  Outcome(UtcOffset_into_pyobject(self, limited), 0)))} :
          /\ last' = Call("UtcOffset::into_py", self, out.res, out.warnings)
          /\ host' = (IF IsOk(out.res) THEN out.res.val ELSE host)
          /\ src' = (IF IsOk(out.res) THEN self ELSE src)
          /\ TYPES' = CellAfter(limited, TYPES, hostmod)
          /\ API' = ApiAfter(limited, API, hostmod)
          /\ UNCHANGED fixed

Next ==
  \/ HostNew
  \/ Drop
  \/ ExportDuration
  \/ ImportDuration
  \/ ReExportDuration
  \/ ExportDate
  \/ ImportDate
  \/ ExportTime
  \/ ImportTime
  \/ ExportPrimitiveDateTime
  \/ ImportPrimitiveDateTime
  \/ ExportOffsetDateTime
  \/ ImportOffsetDateTime
  \/ ExportUtcOffset
  \/ ImportUtcOffset
  \/ ExportMonth
  \/ ImportMonth
  \/ ToObjectDuration
  \/ IntoPyDuration
  \/ ToObjectDate
  \/ IntoPyDate
  \/ ToObjectTime
  \/ IntoPyTime
  \/ ToObjectPrimitiveDateTime
  \/ IntoPyPrimitiveDateTime
  \/ ToObjectOffsetDateTime
  \/ IntoPyOffsetDateTime
  \/ ToObjectUtcOffset
  \/ IntoPyUtcOffset

Spec == Init /\ [][Next]_vars

(***************************************************************************)
(* Repeated calls.  The same entry points are called again and again in    *)
(* any order, on arguments of the tests, while the host module may stop   *)
(* and start being importable; memo keeps one earlier call, with its       *)
(* result, with whether the type table was still unset when it was made    *)
(* and with whether the host module could then be imported.                *)
(***************************************************************************)
\* the date-time of test_naive_to_timezone_aware_fails and the same with a tzinfo
NaiveTestDateTime == PyDateTime(2022, 1, 1, 1, 0, 0, 0, PyNone)

AwareTestDateTime ==
  PyDateTime(2022, 1, 1, 1, 0, 0, 0, PyTimezone(PyDelta(0, 0, 0)))

RepeatExports ==
  {<<"Duration::into_pyobject", d>> : d \in LegacyDurations}
    \cup {<<"Date::into_pyobject", d>> :
            d \in {Date(2022, 1, 1), Date(MinYear - 1, 12, 31)}}
    \cup {<<"OffsetDateTime::into_pyobject",
            OffsetDateTime(Date(2022, 1, 1), Time(23, 59, 59, 0), UtcOffset(s))>> :
            s \in {SecondsPerHour, SecondsPerDay}}
    \cup {<<"UtcOffset::into_pyobject", UtcOffset(s)>> :
            s \in {-SecondsPerHour, SecondsPerDay}}

RepeatImports ==
  {<<"OffsetDateTime::extract_bound", NaiveTestDateTime>>,
   <<"OffsetDateTime::extract_bound", AwareTestDateTime>>,
   <<"PrimitiveDateTime::extract_bound", NaiveTestDateTime>>,
   <<"PrimitiveDateTime::extract_bound", AwareTestDateTime>>,
   <<"Duration::extract_bound", PyNone>>,
   <<"Duration::extract_bound", PyDelta(-1, 1, 10)>>,
   <<"Date::extract_bound", PyDate(2022, 1, 1)>>,
   <<"Time::extract_bound", NaiveTestDateTime>>,
   <<"UtcOffset::extract_bound", PyZoneInfo("Europe/London")>>,
   <<"UtcOffset::extract_bound", PyUserTz(PyDelta(49710, 23296, 0))>>}

\* the export named op
ExportBy(op, self, lim) ==
  CASE op = "Duration::into_pyobject" -> Outcome(Duration_into_pyobject(self, lim), 0)
    [] op = "Date::into_pyobject" -> Outcome(Date_into_pyobject(self, lim), 0)
    [] op = "OffsetDateTime::into_pyobject" -> OffsetDateTime_into_pyobject(self, lim)
    [] op = "UtcOffset::into_pyobject" -> Outcome(UtcOffset_into_pyobject(self, lim), 0)

\* the import named op
ImportBy(op, ob, lim) ==
  CASE op = "Duration::extract_bound" -> Duration_extract_bound(ob, lim)
    [] op = "Date::extract_bound" -> Date_extract_bound(ob, lim)
    [] op = "Time::extract_bound" -> Time_extract_bound(ob, lim)
    [] op = "PrimitiveDateTime::extract_bound" -> PrimitiveDateTime_extract_bound(ob, lim)
    [] op = "OffsetDateTime::extract_bound" -> OffsetDateTime_extract_bound(ob, lim)
    [] op = "UtcOffset::extract_bound" -> UtcOffset_extract_bound(ob, lim)

\* whether a call finds nothing kept from an earlier one: the cell of the
\* limited build, the C API pointer of the default build
Cold(lim, cell, api) == IF lim THEN cell = Unset ELSE api = Unset

\* what obtaining the host's types gives a call: they are there when an
\* earlier call left them or when loading them succeeds, and otherwise
\* there is the error of loading them
Obtained(lim, cold, imp) ==
  LET t == IF lim THEN DatetimeTypes_load(imp, 0)
           ELSE ensure_datetime_api(Unset, imp).res
  IN  IF ~cold \/ IsOk(t) THEN Ok(TRUE) ELSE t

\* two outcomes are the same: the same kind of result and then the same
\* value, error or panic
SameResult(a, b) == a.tag = b.tag /\ a = b

\* a remembered call: cold tells whether it found nothing kept and imp
\* what the host had under the name datetime; later counts the calls made
\* since, up to MaxLater; same_module tells whether the host had the same
\* under that name at the latest call, same_obtained whether obtaining
\* the host's types gave the latest call the same
Memo(call, cold, imp, later) ==
  [kind |-> "call", op |-> call.op, arg |-> call.arg, res |-> call.res,
   warnings |-> call.warnings, cold |-> cold, imp |-> imp,
   later |-> later, same_module |-> TRUE, same_obtained |-> TRUE]

Later(m, lim, cold, imp) ==
  IF m = NoMemo THEN m
  ELSE [m EXCEPT !.later = IF m.later = MaxLater THEN MaxLater ELSE m.later + 1,
                 !.same_module = (imp = m.imp),
                 !.same_obtained = SameResult(Obtained(lim, cold, imp),
                                              Obtained(lim, m.cold, m.imp))]

\* what a call leaves behind; keep tells whether it is the one remembered
Called(op, arg, out, keep) ==
  /\ keep => memo = NoMemo
  /\ last' = Call(op, arg, out.res, out.warnings)
  /\ TYPES' = CellAfter(limited, TYPES, hostmod)
  /\ API' = ApiAfter(limited, API, hostmod)
  /\ memo' = (IF keep
              THEN Memo(Call(op, arg, out.res, out.warnings),
                        Cold(limited, TYPES, API), hostmod, 0)
              ELSE Later(memo, limited, Cold(limited, TYPES, API), hostmod))
  /\ UNCHANGED <<limited, host, src, hostmod, pc, mine>>

RepeatExport ==
  \E c \in RepeatExports, keep \in BOOLEAN :
    \E out \in {via_try_get(limited, TYPES, API, hostmod, ExportBy(c[1], c[2], limited))} :
      Called(c[1], c[2], out, keep)

RepeatImport ==
  \E c \in RepeatImports, keep \in BOOLEAN :
    \E out \in {via_get(limited, TYPES, API, hostmod,
                        Outcome(ImportBy(c[1], c[2], limited), 0))} :
      Called(c[1], c[2], out, keep)

\* the remembered call is forgotten
Forget ==
  /\ memo # NoMemo
  /\ memo' = NoMemo
  /\ UNCHANGED <<limited, host, src, last, TYPES, API, hostmod, pc, mine>>

\* what the host has under the name datetime changes
ImportFlips ==
  /\ \E m \in HostModules \ {hostmod} : hostmod' = m
  /\ UNCHANGED <<limited, host, src, last, TYPES, API, memo, pc, mine>>

NextRepeat == RepeatExport \/ RepeatImport \/ Forget \/ ImportFlips

SpecRepeat == Init /\ [][NextRepeat]_vars

(***************************************************************************)
(* First uses of the type table by several threads (limited build).  A     *)
(* thread holds the host's lock while it runs a step; inside the           *)
(* initializer, importing the host module may release the lock, so the     *)
(* steps of get_or_try_init of different threads interleave between the    *)
(* check of the cell and the set.  pc[t] is where thread t stands, mine[t] *)
(* the table its last call of try_get returned.                            *)
(***************************************************************************)
InitTypes == Init /\ limited

\* try_get: the cell is looked at; a thread that finds it set returns its
\* content, one that finds it unset enters the initializer
Start(t) ==
  /\ pc[t] = "idle"
  /\ IF TYPES # Unset
     THEN /\ mine' = [mine EXCEPT ![t] = TYPES]
          /\ pc' = [pc EXCEPT ![t] = "done"]
     ELSE /\ mine' = mine
          /\ pc' = [pc EXCEPT ![t] = "init"]
  /\ UNCHANGED <<limited, host, src, last, TYPES, API, hostmod, memo>>

\* the initializer of thread t returns: an error leaves the cell as it is
\* and is the result of try_get; a table is offered to the cell with set,
\* and what the cell then holds is the result
Finish(t) ==
  /\ pc[t] = "init"
  /\ \E value \in {DatetimeTypes_load(hostmod, t)} :
       IF ~IsOk(value)
       THEN /\ pc' = [pc EXCEPT ![t] = "idle"]
            /\ UNCHANGED <<TYPES, mine>>
       ELSE /\ TYPES' = GILOnceCell_set(TYPES, value.val)
            /\ mine' = [mine EXCEPT ![t] = GILOnceCell_set(TYPES, value.val)]
            /\ pc' = [pc EXCEPT ![t] = "done"]
  /\ UNCHANGED <<limited, host, src, last, API, hostmod, memo>>

\* thread t goes on to its next conversion
Again(t) ==
  /\ pc[t] = "done"
  /\ pc' = [pc EXCEPT ![t] = "idle"]
  /\ UNCHANGED <<limited, host, src, last, TYPES, API, hostmod, memo, mine>>

NextTypes ==
  \/ \E t \in Threads : Start(t)
  \/ \E t \in Threads : Finish(t)
  \/ \E t \in Threads : Again(t)
  \/ ImportFlips

SpecTypes == InitTypes /\ [][NextTypes]_vars

(***************************************************************************)
(* Quantities the properties are stated in.                                *)
(***************************************************************************)
\* -999999999 days, and 999999999 days 86399 s, in seconds
MinHostSeconds == WNeg(WMulSmall(WFromInt(MaxDeltaDays), SecondsPerDay))

MaxHostSeconds ==
  WAdd(WMulSmall(WFromInt(MaxDeltaDays), SecondsPerDay), WFromInt(SecondsPerDay - 1))

\* d has no part below a microsecond
NoSubMicro(d) == d.nanoseconds % NanosPerMicro = 0

\* the days of d, rounded down as the host normalizes them, lie in
\* [-999999999, 999999999]
NormalizedDaysInRange(d) ==
  /\ \/ WCmp(d.seconds, MinHostSeconds) > 0
     \/ (d.seconds = MinHostSeconds /\ d.nanoseconds >= 0)
  /\ WCmp(d.seconds, MaxHostSeconds) <= 0

\* d, with its part below a microsecond cut off toward zero, lies outside
\* the host's range of deltas
TruncatedOutOfRange(d) ==
  \/ WCmp(d.seconds, MinHostSeconds) < 0
  \/ (d.seconds = MinHostSeconds /\ d.nanoseconds <= -NanosPerMicro)
  \/ WCmp(d.seconds, MaxHostSeconds) > 0

\* d in whole microseconds, cut off toward zero
TruncMicros(d) ==
  LET whole == IF d.nanoseconds >= 0 THEN d.nanoseconds \div NanosPerMicro
               ELSE -((-d.nanoseconds) \div NanosPerMicro)
  IN  WAdd(WMulSmall(WMulSmall(d.seconds, 1000), 1000), WFromInt(whole))

\* the span a host delta denotes, in microseconds
HostMicros(delta) ==
  WAdd(WMulSmall(WMulSmall(
         WAdd(WMulSmall(WFromInt(delta.days), SecondsPerDay), WFromInt(delta.seconds)),
         1000), 1000),
       WFromInt(delta.microseconds))

\* the whole-day count of d, cut off toward zero, is +999999999 / -999999999
AtPlusMaxDays(d) ==
  /\ WCmp(d.seconds, WNeg(MinHostSeconds)) >= 0
  /\ WCmp(d.seconds, MaxHostSeconds) <= 0

AtMinusMaxDays(d) ==
  /\ WCmp(d.seconds, WNeg(MaxHostSeconds)) >= 0
  /\ WCmp(d.seconds, MinHostSeconds) <= 0

ExportedDuration == last.op = "Duration::into_pyobject"

ImportedDuration == last.op = "Duration::extract_bound"

(***************************************************************************)
(* C1.  Duration round trip: every native duration whose normalized days   *)
(* lie in [-999999999, 999999999] and that has no part below a microsecond *)
(* exports successfully, and importing the exported delta yields exactly   *)
(* the original duration, negative durations included.                     *)
(***************************************************************************)
C1_DurationRoundTrip ==
  /\ (ExportedDuration /\ NormalizedDaysInRange(last.arg) /\ NoSubMicro(last.arg))
       => IsOk(last.res)
  /\ (ImportedDuration /\ src.kind = "Duration" /\ NoSubMicro(src))
       => last.res = Ok(src)

\* a negative duration of microseconds, renormalized by the host to negative
\* days and positive microseconds, has come back
C1_Witness ==
  /\ ImportedDuration
  /\ src.kind = "Duration" /\ NoSubMicro(src)
  /\ src.seconds.neg /\ src.nanoseconds < 0
  /\ host.days < 0 /\ host.microseconds > 0
  /\ last.res = Ok(src)

(***************************************************************************)
(* C2.  As claimed: every native duration whose value lies outside the     *)
(* host's range (normalized days outside [-999999999, 999999999]) fails to *)
(* export.                                                                 *)
(***************************************************************************)
C2_OutOfRangeFails_Original ==
  (ExportedDuration /\ ~NormalizedDaysInRange(last.arg)) => ~IsOk(last.res)

(***************************************************************************)
(* C2, amended.  Every native duration whose value, cut off toward zero to *)
(* whole microseconds, lies outside the host's range fails to export with  *)
(* a returned error and produces no host delta: Duration::MIN and          *)
(* Duration::MAX, and every day count that does not fit 32 bits, among     *)
(* them.                                                                   *)
(***************************************************************************)
C2_OutOfRangeFails ==
  (ExportedDuration /\ TruncatedOutOfRange(last.arg))
    => (IsErr(last.res) /\ host = PyNone /\ src = NoNative)

\* an export of a day count that does not fit 32 bits has failed
C2_Witness ==
  /\ ExportedDuration
  /\ ~WFitsI32(WDivTrunc(last.arg.seconds, SecondsPerDay))
  /\ IsErr(last.res)

(***************************************************************************)
(* C3.  As claimed: every native duration whose whole-day count is exactly *)
(* +999999999 or -999999999 exports successfully, whatever its sub-day     *)
(* remainder.                                                              *)
(***************************************************************************)
C3_BoundaryDaysExport_Original ==
  (ExportedDuration /\ (AtPlusMaxDays(last.arg) \/ AtMinusMaxDays(last.arg)))
    => IsOk(last.res)

(***************************************************************************)
(* C3, amended.  A whole-day count of +999999999 exports successfully with *)
(* every sub-day remainder.  A whole-day count of -999999999 exports       *)
(* successfully exactly when the remainder is smaller than a microsecond;  *)
(* with a larger remainder the value is below the host's minimum and the   *)
(* export fails.                                                           *)
(***************************************************************************)
C3_BoundaryDaysExport ==
  /\ (ExportedDuration /\ AtPlusMaxDays(last.arg)) => IsOk(last.res)
  /\ (ExportedDuration /\ AtMinusMaxDays(last.arg))
       => (IsOk(last.res)
             <=> (last.arg.seconds = MinHostSeconds
                    /\ last.arg.nanoseconds > -NanosPerMicro))

\* -999999999 days and a remainder below a microsecond has been exported
C3_Witness ==
  /\ ExportedDuration
  /\ AtMinusMaxDays(last.arg)
  /\ last.arg.nanoseconds < 0
  /\ IsOk(last.res)

(***************************************************************************)
(* C4.  Export truncates, never rounds: every native duration that, cut    *)
(* off toward zero to microseconds, is in the host's range exports to a    *)
(* delta that denotes exactly that truncated duration, with                *)
(* 0 <= seconds < 86400 and 0 <= microseconds < 1000000; -1 day + 1 s      *)
(* - 10 us exports as timedelta(-1, 1, -10), which is (-1, 0, 999990).     *)
(***************************************************************************)
C4_ExportTruncates ==
  /\ (ExportedDuration /\ ~TruncatedOutOfRange(last.arg))
       => /\ IsOk(last.res)
          /\ HostMicros(last.res.val) = TruncMicros(last.arg)
          /\ last.res.val.seconds >= 0 /\ last.res.val.seconds < SecondsPerDay
          /\ last.res.val.microseconds >= 0
          /\ last.res.val.microseconds < MicrosPerSecond
  /\ (ExportedDuration /\ last.arg = TestDelta)
       => last.res = Ok(PyDelta(-1, 0, 999990))

\* a negative duration with a part below a microsecond has been exported
C4_Witness ==
  /\ ExportedDuration
  /\ last.arg.seconds.neg
  /\ last.arg.nanoseconds < 0 /\ ~NoSubMicro(last.arg)
  /\ IsOk(last.res)
  /\ last.res.val.microseconds > 0

(***************************************************************************)
(* C5.  Import of a host delta succeeds for every valid delta and yields   *)
(* exactly days * 86400 s + seconds + microseconds, a value the native     *)
(* duration holds without overflow.                                        *)
(***************************************************************************)
C5_ImportDelta ==
  (ImportedDuration /\ host.kind = "timedelta")
    => /\ IsOk(last.res)
       /\ WFitsI64(last.res.val.seconds)
       /\ NoSubMicro(last.res.val)
       /\ TruncMicros(last.res.val) = HostMicros(host)

\* the least host delta, made by the host, has been imported
C5_Witness ==
  /\ ImportedDuration
  /\ src = NoNative
  /\ host.kind = "timedelta" /\ host.days = -MaxDeltaDays
  /\ IsOk(last.res)

(***************************************************************************)
(* C6.  Date round trip: every valid date of a year in [1, 9999] exports   *)
(* successfully and the exported date imports as the original date.        *)
(***************************************************************************)
C6_DateRoundTrip ==
  /\ (last.op = "Date::into_pyobject"
        /\ last.arg.year >= MinYear /\ last.arg.year <= MaxYear)
       => last.res = Ok(PyDate(last.arg.year, last.arg.month, last.arg.day))
  /\ (last.op = "Date::extract_bound" /\ src.kind = "Date")
       => last.res = Ok(src)

(***************************************************************************)
(* C7.  Date export fails with the host constructor's error for every      *)
(* native date of a year outside [1, 9999], producing no host date; a      *)
(* host date that is produced has the native date's year.                  *)
(***************************************************************************)
C7_DateExportOutOfRange ==
  /\ (last.op = "Date::into_pyobject"
        /\ (last.arg.year < MinYear \/ last.arg.year > MaxYear))
       => (IsErr(last.res) /\ last.res.type = "ValueError" /\ host = PyNone)
  /\ (last.op = "Date::into_pyobject" /\ IsOk(last.res))
       => last.res.val.year = last.arg.year

\* the export of a date of year 0 has failed
C7_Witness ==
  /\ last.op = "Date::into_pyobject"
  /\ last.arg.year = MinYear - 1
  /\ IsErr(last.res)

(***************************************************************************)
(* C8.  Time round trip: every native time of whole microseconds exports   *)
(* successfully without a warning, and the exported time imports as        *)
(* exactly the original time.                                              *)
(***************************************************************************)
C8_TimeRoundTrip ==
  /\ (last.op = "Time::into_pyobject"
        /\ last.arg.nanosecond % NanosPerMicro = 0
        /\ last.arg.nanosecond < NanosPerSecond)
       => (IsOk(last.res) /\ last.warnings = 0)
  /\ (last.op = "Time::extract_bound" /\ src.kind = "Time"
        /\ src.nanosecond % NanosPerMicro = 0
        /\ src.nanosecond < NanosPerSecond)
       => (last.res = Ok(src) /\ last.warnings = 0)

\* 23:59:59.999999 has come back
C8_Witness ==
  /\ last.op = "Time::extract_bound"
  /\ src = Time(23, 59, 59, NanosPerSecond - NanosPerMicro)
  /\ last.res = Ok(src)

(***************************************************************************)
(* C10.  Importing a host date-time that carries a tzinfo into             *)
(* PrimitiveDateTime fails with TypeError 'expected a datetime without     *)
(* tzinfo', whatever its date and time fields.                             *)
(***************************************************************************)
C10_AwareToNaiveFails ==
  (last.op = "PrimitiveDateTime::extract_bound"
     /\ host.kind = "datetime" /\ host.tzinfo # PyNone)
    => last.res = Err("TypeError", "expected a datetime without tzinfo")

\* a date-time with a fixed-offset timezone has been refused
C10_Witness ==
  /\ last.op = "PrimitiveDateTime::extract_bound"
  /\ host.kind = "datetime" /\ host.tzinfo.kind = "timezone"
  /\ IsErr(last.res)

(***************************************************************************)
(* C11.  Importing a host date-time whose tzinfo is None into              *)
(* OffsetDateTime fails with TypeError 'expected a datetime with non-None  *)
(* tzinfo', on the first import and on every repetition of it.             *)
(***************************************************************************)
C11_NaiveToAwareFails ==
  (last.op = "OffsetDateTime::extract_bound"
     /\ host.kind = "datetime" /\ host.tzinfo = PyNone)
    => last.res = Err("TypeError", "expected a datetime with non-None tzinfo")

\* a date-time without tzinfo has been refused
C11_Witness ==
  /\ last.op = "OffsetDateTime::extract_bound"
  /\ host.kind = "datetime" /\ host.tzinfo = PyNone
  /\ IsErr(last.res)

\* the host tzinfo objects whose utcoffset(None) is None
NeedsInstant(ob) ==
  \/ ob.kind = "zoneinfo"
  \/ ob.kind = "usertz" /\ ob.ret = PyNone

(***************************************************************************)
(* C12.  Importing as UtcOffset a host tzinfo whose utcoffset(None) is     *)
(* None, such as zoneinfo 'Europe/London', fails with a TypeError whose    *)
(* message is the object's repr followed by ' is not a fixed offset        *)
(* timezone'; no native offset comes out of it.                            *)
(***************************************************************************)
C12_NotFixedOffsetFails ==
  (last.op = "UtcOffset::extract_bound" /\ NeedsInstant(host))
    => /\ ~IsOk(last.res)
       /\ last.res = Err("TypeError", <<Repr(host), " is not a fixed offset timezone">>)

\* the zone of test_zoneinfo_is_not_fixed_offset has been refused by name
C12_Witness ==
  /\ last.op = "UtcOffset::extract_bound"
  /\ host = PyZoneInfo("Europe/London")
  /\ last.res = Err("TypeError", <<<<"zoneinfo.ZoneInfo(key='", "Europe/London", "')">>,
                                   " is not a fixed offset timezone">>)

\* -86399 <= s <= 86399
InsideOneDay(s) == s > -SecondsPerDay /\ s < SecondsPerDay

(***************************************************************************)
(* C13.  Fixed-offset round trip: every UtcOffset of s whole seconds with  *)
(* -86399 <= s <= 86399 exports to a host timezone, and importing that     *)
(* timezone gives the offset s back; a host timezone built from a delta of *)
(* 3600 seconds imports as +1 hour.                                        *)
(***************************************************************************)
C13_FixedOffsetRoundTrip ==
  /\ (last.op = "UtcOffset::into_pyobject" /\ InsideOneDay(last.arg.seconds))
       => /\ IsOk(last.res)
          /\ last.res.val.kind = "timezone"
  /\ (last.op = "UtcOffset::extract_bound" /\ src.kind = "UtcOffset")
       => last.res = Ok(src)
  /\ (last.op = "UtcOffset::extract_bound"
        /\ host = PyTimezone(PyDelta(0, SecondsPerHour, 0)))
       => last.res = Ok(UtcOffset(SecondsPerHour))

\* the offset of -86399 seconds, a host delta of -1 day and 1 second, has
\* come back
C13_Witness ==
  /\ last.op = "UtcOffset::extract_bound"
  /\ src = UtcOffset(1 - SecondsPerDay)
  /\ host = PyTimezone(PyDelta(-1, 1, 0))
  /\ last.res = Ok(src)

\* a host delta whose whole seconds s, cut toward zero, have |s| >= 86400
DeltaOutsideOneDay(td) ==
  \/ td.days >= 1
  \/ td.days <= -2
  \/ td = PyDelta(-1, 0, 0)

(***************************************************************************)
(* C14.  Importing as UtcOffset a host tzinfo whose utcoffset(None) is a   *)
(* delta of s whole seconds with |s| >= 86400 fails with ValueError 'fixed *)
(* offset out of bounds', whatever the size of s; every offset that is     *)
(* imported lies strictly between -86400 and 86400 seconds.                *)
(***************************************************************************)
C14_OutOfRangeOffsetFails ==
  /\ (last.op = "UtcOffset::extract_bound"
        /\ IsInstance(host, "tzinfo")
        /\ utcoffset(host) # PyNone /\ utcoffset(host).kind = "timedelta"
        /\ DeltaOutsideOneDay(utcoffset(host)))
       => last.res = Err("ValueError", "fixed offset out of bounds")
  /\ (last.op = "UtcOffset::extract_bound" /\ IsOk(last.res))
       => InsideOneDay(last.res.val.seconds)

\* the six imports with the host kind each expects and the name it reports
ImportChecks ==
  {<<"Duration::extract_bound", "timedelta", "PyDelta">>,
   <<"Date::extract_bound", "date", "PyDate">>,
   <<"Time::extract_bound", "time", "PyTime">>,
   <<"PrimitiveDateTime::extract_bound", "datetime", "PyDateTime">>,
   <<"OffsetDateTime::extract_bound", "datetime", "PyDateTime">>,
   <<"UtcOffset::extract_bound", "tzinfo", "PyTzInfo">>}

(***************************************************************************)
(* C15.  Each of the six imports, given a host value that is not an        *)
(* instance of the kind it expects, fails with the TypeError of a failed   *)
(* downcast that names the expected kind (PyDelta, PyDate, PyTime,         *)
(* PyDateTime, PyDateTime, PyTzInfo), whatever attributes the value has:   *)
(* the type is checked before any field or tzinfo is read.                 *)
(***************************************************************************)
C15_TypeMismatchFails ==
  \A c \in ImportChecks :
    (last.op = c[1] /\ ~IsInstance(host, c[2]))
      => last.res = Err("TypeError",
                        <<"'", TypeName(host), "' object cannot be converted to '",
                          c[3], "'">>)

\* a date-time, which has every attribute of a time of day, has been refused
\* as a time for its type
C15_Witness ==
  /\ last.op = "Time::extract_bound"
  /\ host.kind = "datetime"
  /\ last.res = DowncastError(host, "PyTime")

(***************************************************************************)
(* C16.  No conversion failure is fatal: every call of an entry point of   *)
(* the module, the legacy to_object and into_py included, in either build, *)
(* returns a value or a typed error; none panics.                          *)
(***************************************************************************)
C16_NoFailureIsFatal ==
  last.res.tag \in {"Ok", "Err"}

\* the export entry points of OffsetDateTime
OffsetDateTimeExports ==
  {"OffsetDateTime::into_pyobject", "OffsetDateTime::into_py",
   "OffsetDateTime::to_object"}

(***************************************************************************)
(* C17.  Every successful export of an OffsetDateTime, by into_pyobject,   *)
(* into_py or to_object, gives a host date-time whose tzinfo is the host   *)
(* timezone of the value's offset, and gives the host value into_pyobject  *)
(* gives for the same input.                                               *)
(***************************************************************************)
C17_OffsetAttached ==
  (last.op \in OffsetDateTimeExports /\ IsOk(last.res))
    => /\ last.res.val.kind = "datetime"
       /\ Ok(last.res.val.tzinfo) = UtcOffset_into_pyobject(last.arg.offset, limited)
       /\ last.res = OffsetDateTime_into_pyobject(last.arg, limited).res

(***************************************************************************)
(* C18.  OffsetDateTime round trip: every OffsetDateTime of a year within  *)
(* 1..9999, of whole microseconds and of an offset within -86399..86399    *)
(* seconds exports, and importing the exported date-time gives a value of  *)
(* the same local date, the same local time and the same offset.           *)
(***************************************************************************)
C18_OffsetDateTimeRoundTrip ==
  /\ (last.op = "OffsetDateTime::into_pyobject"
        /\ last.arg.date.year >= MinYear /\ last.arg.date.year <= MaxYear
        /\ InsideOneDay(last.arg.offset.seconds))
       => IsOk(last.res)
  /\ (last.op = "OffsetDateTime::extract_bound" /\ src.kind = "OffsetDateTime"
        /\ OffsetDateTime_into_pyobject(src, limited).res = Ok(host)
        /\ src.time.nanosecond % NanosPerMicro = 0)
       => /\ IsOk(last.res)
          /\ last.res.val.date = src.date
          /\ last.res.val.time = src.time
          /\ last.res.val.offset = src.offset

\* the latest call is a later call of the remembered conversion on the
\* remembered argument
CalledAgain ==
  memo # NoMemo /\ memo.later >= 1 /\ last.op = memo.op /\ last.arg = memo.arg

C20_WriteOnce ==
  /\ [](\A t \in Threads : mine[t] # Unset => mine[t] = TYPES)
  /\ [][TYPES # Unset => TYPES' = TYPES]_vars

\* two threads were inside the initializer at once; the table of the one
\* that finished first is in the cell and is what the other, whose own
\* table was dropped, got back
C20_Witness ==
  \E t, u \in Threads :
    /\ t # u
    /\ pc[t] = "done" /\ pc[u] = "done"
    /\ TYPES = DatetimeTypes(t)
    /\ mine[t] = TYPES /\ mine[u] = TYPES
    /\ \E w \in Threads \ {t, u} : pc[w] = "init"

(***************************************************************************)
(* C21.  The two builds import a host date alike: for every host date or   *)
(* date-time, reading the fields directly (default build) and reading them *)
(* by attribute lookup (limited build) give the same native date or the    *)
(* same failure, the host month being 1-based in both.                     *)
(***************************************************************************)
C21_BuildsImportDatesAlike ==
  (last.op = "Date::extract_bound" /\ IsInstance(host, "date"))
    => /\ last.res = py_date_to_naive_date(host, FALSE)
       /\ last.res = py_date_to_naive_date(host, TRUE)

(***************************************************************************)
(* C22.  Month round trip: each of the twelve Months exports to its        *)
(* 1-based number (January 1 ... December 12), importing that number gives *)
(* the same Month back, and importing an integer outside 1..12 fails with  *)
(* ValueError 'invalid month'.                                             *)
(***************************************************************************)
C22_MonthRoundTrip ==
  /\ last.op = "Month::into_pyobject" => last.res = Ok(PyInt(last.arg.number))
  /\ (last.op = "Month::extract_bound" /\ src.kind = "Month") => last.res = Ok(src)
  /\ (last.op = "Month::extract_bound" /\ host.kind = "int"
        /\ host.value \notin 1..12)
       => last.res = Err("ValueError", "invalid month")

\* the exports that may warn of a leap second
WarningExports ==
  {"Time::into_pyobject", "Time::to_object", "Time::into_py",
   "PrimitiveDateTime::into_pyobject", "PrimitiveDateTime::to_object",
   "PrimitiveDateTime::into_py", "OffsetDateTime::into_pyobject",
   "OffsetDateTime::to_object", "OffsetDateTime::into_py"}

\* the time of day of the argument of such an export
TimeOf(arg) == IF arg.kind = "Time" THEN arg ELSE arg.time

(***************************************************************************)
(* C24.  An export of a Time, PrimitiveDateTime or OffsetDateTime emits    *)
(* the leap-second warning exactly when it has constructed the host object *)
(* and the time's nanosecond is at least 1,000,000,000, and then once: an  *)
(* export of a smaller nanosecond emits none, and an export that fails     *)
(* emits none.                                                             *)
(***************************************************************************)
C24_WarningOnlyForLeapSecond ==
  last.op \in WarningExports
    => /\ last.warnings \in {0, 1}
       /\ last.warnings = 1
            <=> (IsOk(last.res) /\ TimeOf(last.arg).nanosecond >= NanosPerSecond)
       /\ ~IsOk(last.res) => last.warnings = 0

\* a time in the last nanosecond of its second has been exported without a
\* warning
C24_Witness ==
  /\ last.op = "Time::into_pyobject"
  /\ last.arg.second = 59 /\ last.arg.nanosecond = NanosPerSecond - 1
  /\ IsOk(last.res) /\ last.res.val.microsecond = MicrosPerSecond - 1
  /\ last.warnings = 0

(***************************************************************************)
(* C25.  The export of an OffsetDateTime converts the offset first: when   *)
(* the offset has no host timezone, the export returns the error of the    *)
(* offset's export, whatever the date and time are, constructs no host     *)
(* date-time and emits no warning.                                         *)
(***************************************************************************)
C25_OffsetExportedFirst ==
  (last.op = "OffsetDateTime::into_pyobject"
     /\ ~IsOk(UtcOffset_into_pyobject(last.arg.offset, limited)))
    => /\ last.res = UtcOffset_into_pyobject(last.arg.offset, limited)
       /\ IsErr(last.res)
       /\ last.warnings = 0
       /\ host = PyNone

\* a date-time of the year 0, which the host cannot hold either, at an
\* offset of 24 hours has failed with the error of the offset
C25_Witness ==
  /\ last.op = "OffsetDateTime::into_pyobject"
  /\ last.arg.date.year = MinYear - 1
  /\ last.arg.offset.seconds = SecondsPerDay
  /\ IsErr(last.res)
  /\ last.res = UtcOffset_into_pyobject(UtcOffset(SecondsPerDay), limited)
  /\ last.res # PyDate_new(MinYear - 1, 12, 31)

(***************************************************************************)
(* C26.  The export of a UtcOffset of s whole seconds fails when           *)
(* |s| >= 86400, which the native type can hold, and never wraps; when     *)
(* |s| <= 86399 it gives a host timezone whose offset is the delta of      *)
(* 0 days, s seconds and 0 microseconds, as the host normalizes it.        *)
(***************************************************************************)
C26_OffsetExportInRangeOnly ==
  last.op = "UtcOffset::into_pyobject"
    => IF InsideOneDay(last.arg.seconds)
       THEN /\ IsOk(last.res)
            /\ last.res.val.kind = "timezone"
            /\ last.res.val.offset.days * SecondsPerDay + last.res.val.offset.seconds
                 = last.arg.seconds
            /\ last.res.val.offset.seconds \in 0..(SecondsPerDay - 1)
            /\ last.res.val.offset.microseconds = 0
       ELSE IsErr(last.res) /\ host = PyNone

\* the offset of 25:59:59, the largest the native type holds, has been
\* refused by the host
C26_Witness ==
  /\ last.op = "UtcOffset::into_pyobject"
  /\ last.arg = UtcOffset(MaxOffsetSeconds)
  /\ IsErr(last.res) /\ last.res.type = "ValueError"

(***************************************************************************)
(* C27.  Importing a host time of day gives the native time of its hour,   *)
(* minute, second and microsecond whether or not the object carries a      *)
(* tzinfo: the tzinfo is not looked at.                                    *)
(***************************************************************************)
C27_TimeImportIgnoresTzinfo ==
  (last.op = "Time::extract_bound" /\ host.kind = "time")
    => last.res = Ok(Time(host.hour, host.minute, host.second,
                          host.microsecond * NanosPerMicro))

\* a time of day in the zone Europe/London, which has no fixed offset, has
\* been imported
C27_Witness ==
  /\ last.op = "Time::extract_bound"
  /\ host.kind = "time" /\ host.tzinfo = PyZoneInfo("Europe/London")
  /\ host.microsecond = MicrosPerSecond - 1
  /\ IsOk(last.res) /\ last.res.val.nanosecond = NanosPerSecond - NanosPerMicro

(***************************************************************************)
(* C28.  Host-side duration round trip: importing a host delta and         *)
(* exporting the duration obtained gives a delta equal to the original in  *)
(* days, seconds and microseconds, at both ends of the host's range and    *)
(* for negative deltas too.                                                *)
(***************************************************************************)
C28_DeltaRoundTrip ==
  /\ (last.op = "Duration::extract_bound" /\ host.kind = "timedelta")
       => IsOk(last.res)
  /\ (last.op = "Duration::into_pyobject" /\ host.kind = "timedelta"
        /\ Duration_extract_bound(host, limited) = Ok(last.arg))
       => last.res = Ok(host)

\* the smallest delta of the host but one microsecond, an object that came
\* from the host and not from an export, has come back
C28_Witness ==
  /\ last.op = "Duration::into_pyobject"
  /\ src = NoNative
  /\ host = PyDelta(-MaxDeltaDays, 0, 1)
  /\ last.res = Ok(host)

\* the steps of the import of host as an OffsetDateTime that host passes
IsDateTime == IsInstance(host, "datetime")

HasTzinfo == IsDateTime /\ host.tzinfo # PyNone

HasFixedOffset == HasTzinfo /\ IsOk(UtcOffset_extract_bound(host.tzinfo, limited))

HasDate == HasFixedOffset /\ IsOk(py_date_to_naive_date(host, limited))

HasTime == HasDate /\ IsOk(py_time_to_naive_time(host, limited))

\* the failure r is the failure e: of its kind, and with its message
SameFailure(r, e) ==
  /\ r.tag = e.tag
  /\ r.tag = "Err" => r.type = e.type
  /\ r = e

(***************************************************************************)
(* C29.  The import of an OffsetDateTime checks in a fixed order and       *)
(* reports the first failure only: the type of the object, then that its   *)
(* tzinfo is not None, then that the tzinfo imports as a UtcOffset, then   *)
(* the date, then the time.  A value comes out only if all five pass.      *)
(***************************************************************************)
C29_FirstFailureReported ==
  last.op = "OffsetDateTime::extract_bound"
    => /\ ~IsDateTime => last.res = DowncastError(host, "PyDateTime")
       /\ (IsDateTime /\ ~HasTzinfo)
            => last.res = Err("TypeError", "expected a datetime with non-None tzinfo")
       /\ (HasTzinfo /\ ~HasFixedOffset)
            => SameFailure(last.res, UtcOffset_extract_bound(host.tzinfo, limited))
       /\ (HasFixedOffset /\ ~HasDate) => last.res = py_date_to_naive_date(host, limited)
       /\ (HasDate /\ ~HasTime) => last.res = py_time_to_naive_time(host, limited)
       /\ IsOk(last.res) <=> HasTime

\* a date-time whose tzinfo has no fixed offset and whose date is not
\* imported either has failed with the error of the tzinfo
C29_Witness ==
  /\ last.op = "OffsetDateTime::extract_bound"
  /\ HasTzinfo /\ ~HasFixedOffset
  /\ ~IsOk(py_date_to_naive_date(host, limited))
  /\ last.res = Err("TypeError", <<Repr(host.tzinfo), " is not a fixed offset timezone">>)

====
